---- MODULE Spec2Model ----
(***************************************************************************)
(* Zero-G Unstake: ZeroGToken, StakingVault and UnstakeDelegate            *)
(* (src/unnamed/part_003) as one ledger state machine.                     *)
(*                                                                         *)
(* Every external call is one transaction: it either commits its writes or *)
(* reverts and leaves the ledger as it was.  uint256 arithmetic is checked *)
(* (Solidity ^0.8.24): an overflow reverts with a Panic.  The word width   *)
(* is scaled down to UintMax so that the overflowing cases are reachable.  *)
(*                                                                         *)
(* Off the ledger, one rescue request is driven to its outcome by the      *)
(* relayer script (src/scripts/demo.ts), the monitor bot                   *)
(* (src/scripts/autoUnstakeBot.ts) or the API route                        *)
(* (src/frontend/src/app/api/rescue/route.ts); every await of these async  *)
(* handlers is a step boundary.  The bot's UserRegistry is the map users.  *)
(***************************************************************************)
EXTENDS Integers, Sequences, FiniteSets, TLC

\* ---------------------------------------------------------------- bounds
\* Largest representable unsigned integer (stands for type(uint256).max).
UintMax == 131071
\* block.timestamp ranges over 1..MaxTime.
MaxTime == 3
\* Tokens minted by the ZeroGToken constructor.
InitialSupply == 2600
\* Transactions mined in one behaviour.
MaxTx == 4
\* Staked amounts 0..FeeMaxAmount of the fee specification.
FeeMaxAmount == 1400
\* config.maxRetries ranges over 0..MaxRetries for sendProtectedTransaction
\* alone, and over 1..RelayRetries when a whole request is driven.
MaxRetries == 3
RelayRetries == 1
\* checkAndRescue invocations of the monitor running at the same time.
MaxCycles == 2
\* config.maxConcurrentRescues ranges over 1..MaxConcurrent.
MaxConcurrent == 2
\* Transactions the monitor submits in one behaviour.
MaxSubmissions == 1
\* sendProtectedTransaction calls made on one MevProtectedRelayer instance,
\* its maxRetries ranging over 0..InstanceRetries.
MaxCalls == 2
InstanceRetries == 2
\* Staked amounts 0..CeilingMaxStake of the fee-ceiling specification.
CeilingMaxStake == 210

\* ------------------------------------------------------------- identities
ZERO == "0x0"
VAULT == "vault"
\* A contract other than StakingVault behind the IStakingVault interface
\* (executeRescue takes any address as vault): it reports every account as
\* eligible with IdleReported staked, and its unstake() releases nothing.
IDLE == "idleVault"
IdleReported == 1000
\* The addresses that answer the IStakingVault calls.
Vaults == {VAULT, IDLE}
EOA == {"alice", "bob", "relayer"}
Addr == EOA \cup {VAULT, ZERO}
\* Accounts that stake and delegate their code to UnstakeDelegate.
Stakers == {"alice", "bob"}
\* The recipient of the initial supply.
Deployer == "alice"

\* Inputs the operations are exercised with.
Amounts == {0, 50, 1000, 1500}
TransferAmounts == {1000}
ApproveAmounts == {1500}
TransferTargets == {"bob", VAULT, ZERO}
MaxFees == {5, 10, 200}
LockDurations == {0, 1, UintMax}
VaultArgs == {VAULT, ZERO, "bob"}
RelayerArgs == {"relayer", "alice", VAULT, ZERO}
\* Errors of executeRescue raised before the vault's eligibility is read.
InvalidTargetErrs == {"ZeroAddress", "CallFailed"}

\* Off the ledger: the account a request is for, the amounts it has staked,
\* the authorizations, ceilings and rates a request or registration carries.
RelayUser == "alice"
RelayStakes == {0, 1000, 1400}
AuthKinds == {"ok", "wrongTarget", "malformed"}
RequestMaxFees == {5, 10}
MaxFeeBpsArgs == {50, 200}
TxHashes == {1, 2}

\* ------------------------------------------------------ program constants
BPS_DENOMINATOR == 10000
DEFAULT_RELAYER_FEE_BPS == 100

VARIABLES
    balanceOf,      \* ZeroGToken.balanceOf
    allowance,      \* ZeroGToken.allowance[owner][spender]
    totalSupply,    \* ZeroGToken.totalSupply
    stakes,         \* StakingVault._stakes: account -> [amount, unlockTime]
    lockDuration,   \* StakingVault.lockDuration (immutable)
    now,            \* block.timestamp
    last,           \* the last step: the call, who ran it, its outcome
    released,       \* history: account rescued and not staked again since
    txCount,        \* history: transactions mined so far
    request,        \* the rescue request in hand (script, bot or API route)
    pc,             \* where its handler stands: validating, sending, awaiting, done
    config,         \* MevProtectedRelayer.config
    frame,          \* sendProtectedTransaction: loop counter, recursion depth, lastError
    sent,           \* history: the submission attempts made, in order
    outcome,        \* what the handler returned
    users,          \* UserRegistry.users
    reads,          \* history: ledger reads made by the handler so far
    maxConcurrentRescues,   \* AutoUnstakeBot.config.maxConcurrentRescues
    cycles          \* the checkAndRescue invocations of the monitor that have not returned

\* The monitor's own state.
monitor == <<maxConcurrentRescues, cycles>>

offchain == <<request, pc, config, frame, sent, outcome, users, reads, maxConcurrentRescues, cycles>>

vars == <<balanceOf, allowance, totalSupply, stakes, lockDuration, now, last, released, txCount,
          request, pc, config, frame, sent, outcome, users, reads, maxConcurrentRescues, cycles>>

\* The ledger the contracts read and write, as one value.
World == [bal |-> balanceOf, alw |-> allowance, stk |-> stakes]

NoEvent == [emitted |-> FALSE, user |-> ZERO, vault |-> ZERO, relayer |-> ZERO,
            totalUnstaked |-> 0, relayerFee |-> 0, userReceived |-> 0]
NoRet == [stakedAmount |-> 0, estimatedFee |-> 0, userWouldReceive |-> 0, canRescue |-> FALSE]

\* A transaction that commits with ledger w.
Ok(w) == [err |-> "none", w |-> w, ev |-> NoEvent, e1 |-> 0, e2 |-> 0]
\* Variant: a failure that keeps the writes made before it.
Revert_NoRollback(pre, cur, e, x1, x2) == [err |-> e, w |-> cur, ev |-> NoEvent, e1 |-> x1, e2 |-> x2]

\* A transaction that reverts with error e: the ledger pre is restored,
\* whatever the ledger cur reached before the revert.
Revert(pre, cur, e, x1, x2) == [err |-> e, w |-> pre, ev |-> NoEvent, e1 |-> x1, e2 |-> x2]

\* ------------------------------------------------------------ ZeroGToken
\* Variant: the recipient credited, the sender not debited.
transfer_NoDebit(w, sender, to, amount) ==
    IF to = ZERO THEN Revert(w, w, "ZeroAddress", 0, 0)
    ELSE IF w.bal[sender] < amount THEN Revert(w, w, "InsufficientBalance", 0, 0)
    ELSE IF w.bal[to] + amount > UintMax THEN Revert(w, w, "Panic", 0, 0)
    ELSE Ok([w EXCEPT !.bal[to] = @ + amount])

transfer(w, sender, to, amount) ==
    IF to = ZERO THEN Revert(w, w, "ZeroAddress", 0, 0)
    ELSE IF w.bal[sender] < amount THEN Revert(w, w, "InsufficientBalance", 0, 0)
    ELSE LET b1 == [w.bal EXCEPT ![sender] = @ - amount]
         IN  IF b1[to] + amount > UintMax THEN Revert(w, w, "Panic", 0, 0)
             ELSE Ok([w EXCEPT !.bal = [b1 EXCEPT ![to] = @ + amount]])

approve(w, sender, spender, amount) ==
    IF spender = ZERO THEN Revert(w, w, "ZeroAddress", 0, 0)
    ELSE Ok([w EXCEPT !.alw[sender][spender] = amount])

\* Variant: the allowance spent, no token moved.
transferFrom_KeepsBalances(w, sender, from, to, amount) ==
    IF to = ZERO THEN Revert(w, w, "ZeroAddress", 0, 0)
    ELSE IF w.bal[from] < amount THEN Revert(w, w, "InsufficientBalance", 0, 0)
    ELSE IF w.alw[from][sender] < amount THEN Revert(w, w, "InsufficientAllowance", 0, 0)
    ELSE Ok([w EXCEPT !.alw[from][sender] = @ - amount])

transferFrom(w, sender, from, to, amount) ==
    IF to = ZERO THEN Revert(w, w, "ZeroAddress", 0, 0)
    ELSE IF w.bal[from] < amount THEN Revert(w, w, "InsufficientBalance", 0, 0)
    ELSE IF w.alw[from][sender] < amount THEN Revert(w, w, "InsufficientAllowance", 0, 0)
    ELSE LET b1 == [w.bal EXCEPT ![from] = @ - amount]
         IN  IF b1[to] + amount > UintMax THEN Revert(w, w, "Panic", 0, 0)
             ELSE Ok([w EXCEPT !.alw[from][sender] = @ - amount,
                               !.bal = [b1 EXCEPT ![to] = @ + amount]])

\* ---------------------------------------------------------- StakingVault
\* Variant: a release that clears the amount and keeps the unlock time.
ClearStake_KeepsUnlock(info) == [amount |-> 0, unlockTime |-> info.unlockTime]

\* Variant: the position is not cleared on release.
ClearStake_Keeps(info) == info

\* stakeInfo.amount = 0; stakeInfo.unlockTime = 0
ClearStake(info) == [amount |-> 0, unlockTime |-> 0]

\* Variant: eligibility only strictly after the unlock time.
canUnstake_Strict(stk, user, t) ==
    stk[user].amount > 0 /\ t > stk[user].unlockTime

\* Variant: eligibility that ignores the lock.
canUnstake_IgnoresLock(stk, user, t) == stk[user].amount > 0

\* Variant: eligibility that ignores the amount.
canUnstake_IgnoresAmount(stk, user, t) == t >= stk[user].unlockTime
canUnstake(stk, user, t) ==
    stk[user].amount > 0 /\ t >= stk[user].unlockTime

stakedBalance(stk, user) == stk[user].amount

\* Variant: a restake that keeps the unlock time of an existing position.
stake_KeepsLock(w, sender, amount, t, ld) ==
    IF amount = 0 THEN Revert(w, w, "ZeroAmount", 0, 0)
    ELSE LET tf == transferFrom(w, VAULT, sender, VAULT, amount)
         IN  IF tf.err # "none" THEN Revert(w, tf.w, tf.err, 0, 0)
             ELSE IF t + ld > UintMax THEN Revert(w, tf.w, "Panic", 0, 0)
             ELSE Ok([tf.w EXCEPT !.stk[sender] =
                         [amount |-> @.amount + amount,
                          unlockTime |-> IF @.amount > 0 THEN @.unlockTime ELSE t + ld]])

stake(w, sender, amount, t, ld) ==
    IF amount = 0 THEN Revert(w, w, "ZeroAmount", 0, 0)
    ELSE LET tf == transferFrom(w, VAULT, sender, VAULT, amount)
         IN  IF tf.err # "none" THEN Revert(w, tf.w, tf.err, 0, 0)
             ELSE IF tf.w.stk[sender].amount + amount > UintMax
                  THEN Revert(w, tf.w, "Panic", 0, 0)
             ELSE IF t + ld > UintMax THEN Revert(w, tf.w, "Panic", 0, 0)
             ELSE Ok([tf.w EXCEPT !.stk[sender] =
                         [amount |-> @.amount + amount, unlockTime |-> t + ld]])

\* Variant: a release of half the position (rounded up), the rest kept.
unstake_Partial(w, sender, t) ==
    IF w.stk[sender].amount = 0 THEN Revert(w, w, "NoStake", 0, 0)
    ELSE IF t < w.stk[sender].unlockTime
         THEN Revert(w, w, "StillLocked", w.stk[sender].unlockTime, t)
    ELSE LET amount == (w.stk[sender].amount + 1) \div 2
             w1 == [w EXCEPT !.stk[sender].amount = @ - amount]
             tr == transfer(w1, VAULT, sender, amount)
         IN  IF tr.err # "none" THEN Revert(w, tr.w, tr.err, 0, 0)
             ELSE Ok(tr.w)

\* Variant: a release that clears every position of the vault.
unstake_ClearsAll(w, sender, t) ==
    IF w.stk[sender].amount = 0 THEN Revert(w, w, "NoStake", 0, 0)
    ELSE IF t < w.stk[sender].unlockTime
         THEN Revert(w, w, "StillLocked", w.stk[sender].unlockTime, t)
    ELSE LET amount == w.stk[sender].amount
             w1 == [w EXCEPT !.stk = [a \in Addr |-> ClearStake(w.stk[a])]]
             tr == transfer(w1, VAULT, sender, amount)
         IN  IF tr.err # "none" THEN Revert(w, tr.w, tr.err, 0, 0)
             ELSE Ok(tr.w)
unstake(w, sender, t) ==
    IF w.stk[sender].amount = 0 THEN Revert(w, w, "NoStake", 0, 0)
    ELSE IF t < w.stk[sender].unlockTime
         THEN Revert(w, w, "StillLocked", w.stk[sender].unlockTime, t)
    ELSE LET amount == w.stk[sender].amount
             w1 == [w EXCEPT !.stk[sender] = ClearStake(@)]
             tr == transfer(w1, VAULT, sender, amount)
         IN  IF tr.err # "none" THEN Revert(w, tr.w, tr.err, 0, 0)
             ELSE Ok(tr.w)

\* ------------------------------------------------------- UnstakeDelegate
\* stakingVault.canUnstake(address(this)), stakedBalance(address(this)) and
\* unstake() on the contract at vault.
vaultCanUnstake(w, vault, user, t) ==
    IF vault = IDLE THEN TRUE ELSE canUnstake(w.stk, user, t)

vaultStakedBalance(w, vault, user) ==
    IF vault = IDLE THEN IdleReported ELSE stakedBalance(w.stk, user)

vaultUnstake(w, vault, sender, t) ==
    IF vault = IDLE THEN Ok(w) ELSE unstake(w, sender, t)

\* Variant: no address taken for the zero address.
IsZeroAddress_Never(a) == FALSE

\* vault == address(0), relayer == address(0)
IsZeroAddress(a) == a = ZERO

\* Variant: a release of nothing let through.
NothingReleased_Never(received) == FALSE

\* if (received == 0) revert InsufficientUnstakedAmount()
NothingReleased(received) == received = 0

\* Variant: the amount taken to be the whole balance after the release.
Received_IgnoresBefore(balanceAfter, balanceBefore) == balanceAfter

\* uint256 received = balanceAfter - balanceBefore
Received(balanceAfter, balanceBefore) == balanceAfter - balanceBefore

\* Variant: the fee rounded up.
RelayerFee_RoundUp(received) ==
    (received * DEFAULT_RELAYER_FEE_BPS + BPS_DENOMINATOR - 1) \div BPS_DENOMINATOR

\* uint256 relayerFee = (received * DEFAULT_RELAYER_FEE_BPS) / BPS_DENOMINATOR
RelayerFee(received) == (received * DEFAULT_RELAYER_FEE_BPS) \div BPS_DENOMINATOR

\* The checked multiplication of the fee expression overflows.
FeeOverflows(amount) == amount * DEFAULT_RELAYER_FEE_BPS > UintMax

\* Variant: the ceiling comparison with its operands swapped.
ExceedsMaxFee_Swapped(relayerFee, maxFee) == maxFee > relayerFee

\* if (relayerFee > maxFee) revert FeeTooHigh(relayerFee, maxFee)
ExceedsMaxFee(relayerFee, maxFee) == relayerFee > maxFee

\* if (relayerFee > received) relayerFee = received
ClampFee(relayerFee, received) == IF relayerFee > received THEN received ELSE relayerFee

\* Variant: the account's share recorded before the fee is taken off.
UserReceived_Gross(received, relayerFee) == received
\* uint256 userReceived = received - relayerFee
UserReceived(received, relayerFee) == received - relayerFee

\* executeRescue running as the account self (address(this) under EIP-7702).
executeRescue(w, self, vault, relayer, maxFee, t) ==
    IF IsZeroAddress(vault) THEN Revert(w, w, "ZeroAddress", 0, 0)
    ELSE IF IsZeroAddress(relayer) THEN Revert(w, w, "ZeroAddress", 0, 0)
    ELSE IF vault \notin Vaults THEN Revert(w, w, "CallFailed", 0, 0)
    ELSE IF ~vaultCanUnstake(w, vault, self, t) THEN Revert(w, w, "CannotUnstake", 0, 0)
    ELSE IF vaultStakedBalance(w, vault, self) = 0 THEN Revert(w, w, "CannotUnstake", 0, 0)
    ELSE
      LET balanceBefore == w.bal[self]
          u == vaultUnstake(w, vault, self, t)
      IN  IF u.err # "none" THEN Revert(w, u.w, u.err, u.e1, u.e2)
          ELSE
            LET balanceAfter == u.w.bal[self]
            IN  IF balanceAfter < balanceBefore THEN Revert(w, u.w, "Panic", 0, 0)
                ELSE
                  LET received == Received(balanceAfter, balanceBefore)
                  IN  IF NothingReleased(received)
                      THEN Revert(w, u.w, "InsufficientUnstakedAmount", 0, 0)
                      ELSE IF FeeOverflows(received) THEN Revert(w, u.w, "Panic", 0, 0)
                      ELSE IF ExceedsMaxFee(RelayerFee(received), maxFee)
                           THEN Revert(w, u.w, "FeeTooHigh", RelayerFee(received), maxFee)
                      ELSE
                        LET relayerFee == ClampFee(RelayerFee(received), received)
                            tr == IF relayerFee > 0
                                  THEN transfer(u.w, self, relayer, relayerFee)
                                  ELSE Ok(u.w)
                        IN  IF tr.err # "none" THEN Revert(w, tr.w, tr.err, 0, 0)
                            ELSE [Ok(tr.w) EXCEPT !.ev =
                                    [emitted |-> TRUE, user |-> self, vault |-> vault,
                                     relayer |-> relayer, totalUnstaked |-> received,
                                     relayerFee |-> relayerFee,
                                     userReceived |-> UserReceived(received, relayerFee)]]

\* The values estimateRescue computes from the vault's views; err is
\* "Panic" when the checked multiplication overflows.
estimateValues(stk, user, t) ==
    LET stakedAmount == stakedBalance(stk, user)
        canRescue == canUnstake(stk, user, t)
    IN  IF stakedAmount > 0
        THEN IF FeeOverflows(stakedAmount)
             THEN [err |-> "Panic", ret |-> NoRet]
             ELSE [err |-> "none", ret |->
                     [stakedAmount |-> stakedAmount,
                      estimatedFee |-> RelayerFee(stakedAmount),
                      userWouldReceive |-> stakedAmount - RelayerFee(stakedAmount),
                      canRescue |-> canRescue]]
        ELSE [err |-> "none", ret |->
                [stakedAmount |-> stakedAmount, estimatedFee |-> 0,
                 userWouldReceive |-> 0, canRescue |-> canRescue]]

\* Variant: an estimate that writes the position it reads.
estimateRescue_Writes(w, vault, user, t) ==
    [w |-> [w EXCEPT !.stk[user] = [amount |-> 0, unlockTime |-> 0]],
     err |-> estimateValues(w.stk, user, t).err,
     ret |-> estimateValues(w.stk, user, t).ret]

\* estimateRescue is a view: the ledger it leaves is the ledger it was given.
estimateRescue(w, vault, user, t) ==
    IF vault \notin Vaults
    THEN [w |-> w, err |-> "CallFailed", ret |-> NoRet]
    ELSE IF vault = IDLE
    THEN [w |-> w, err |-> "none", ret |->
            [stakedAmount |-> IdleReported, estimatedFee |-> RelayerFee(IdleReported),
             userWouldReceive |-> IdleReported - RelayerFee(IdleReported), canRescue |-> TRUE]]
    ELSE [w |-> w, err |-> estimateValues(w.stk, user, t).err,
          ret |-> estimateValues(w.stk, user, t).ret]

\* ------------------------------------------------ off the ledger: data
\* DEFAULT_CONFIG of mevProtection.ts (provider 'mev-blocker').
DEFAULT_CONFIG ==
    [enabled |-> TRUE, provider |-> "mev-blocker", maxRetries |-> 3, fallbackToPublic |-> TRUE]
\* MevProtectionConfig.provider
Providers == {"flashbots", "mev-blocker", "public"}

\* const provider = this.config.enabled ? this.config.provider : 'public'
Provider(cfg) == IF cfg.enabled THEN cfg.provider ELSE "public"

\* The locals of a sendProtectedTransaction invocation at its entry, at
\* recursion depth depth within the call-th call made on the instance.
NewFrame(cfg, depth, call) ==
    [attempt |-> 1, depth |-> depth, lastError |-> 0, provider |-> Provider(cfg), call |-> call]

NoRequest == [path |-> "none", user |-> ZERO, auth |-> "ok", maxFee |-> 0, maxFeeBps |-> 0]
NoOutcome == [state |-> "none", reason |-> "", hash |-> 0, error |-> 0]
\* No entry under this key of UserRegistry.users.
\* pos is the place of the key in the Map's iteration (insertion) order.
NoUser == [present |-> FALSE, pos |-> 0, auth |-> "ok", maxFeeBps |-> 0, registeredAt |-> 0,
           lastChecked |-> 0, rescued |-> FALSE, rescueTxHash |-> 0]

\* DEFAULT_CONFIG of autoUnstakeBot.ts (its mevProtection is config above).
BOT_DEFAULT_CONFIG == [maxConcurrentRescues |-> 5]

\* A checkAndRescue invocation: where it stands (check: the loop awaits
\* getStakeInfo; rescue, send, wait: executeRescue awaits getStakeInfo,
\* sendProtectedTransaction, waitForTransactionReceipt), the rest of
\* pendingUsers from the account in hand on, the maxFee and the hash of its
\* submission.  NoCycle: the slot runs no invocation.
NoCycle == [pc |-> "idle", todo |-> <<>>, maxFee |-> 0, hash |-> 0]

\* No request in hand, nothing sent, an empty registry.
OffChainIdle ==
    /\ request = NoRequest
    /\ pc = "idle"
    /\ config = DEFAULT_CONFIG
    /\ frame = NewFrame(config, 0, 1)
    /\ sent = <<>>
    /\ outcome = NoOutcome
    /\ users = [u \in Stakers |-> NoUser]
    /\ reads = 0
    /\ maxConcurrentRescues = BOT_DEFAULT_CONFIG.maxConcurrentRescues
    /\ cycles = [i \in 1..MaxCycles |-> NoCycle]

\* The handler returned a failure / a success for transaction hash h
\* (the index of the attempt in sent; 0 when it has none).
Failed(reason, h) == [state |-> "Failed", reason |-> reason, hash |-> h, error |-> 0]
Succeeded(h) == [state |-> "Succeeded", reason |-> "", hash |-> h, error |-> 0]

\* Variant: the generic error thrown whatever the attempts returned.
Thrown_Generic(lastError) ==
    [state |-> "Failed", reason |-> "Transaction failed after all retries", hash |-> 0, error |-> 0]

\* throw lastError || new Error('Transaction failed after all retries'),
\* caught by the handler and reported: error is the attempt (its index in
\* sent) whose error is reported, 0 for the generic one.
Thrown(lastError) ==
    IF lastError = 0
    THEN [state |-> "Failed", reason |-> "Transaction failed after all retries",
          hash |-> 0, error |-> 0]
    ELSE [state |-> "Failed", reason |-> "Submission error", hash |-> 0, error |-> lastError]

\* ------------------------------------------------------------ UserRegistry
Range(q) == {q[i] : i \in DOMAIN q}

\* this.users.size
Size(us) == Cardinality({u \in DOMAIN us : us[u].present})

\* this.users.set(user.userAddress.toLowerCase(), user): a key already in
\* the Map keeps its place, a new key goes last.
register(us, u, entry) ==
    [us EXCEPT ![u] = [entry EXCEPT !.pos = IF us[u].present THEN us[u].pos ELSE Size(us) + 1]]

\* this.users.delete(key): the keys after it move up.
unregister(us, u) ==
    [v \in DOMAIN us |->
        IF v = u THEN NoUser
        ELSE IF us[u].present /\ us[v].pos > us[u].pos THEN [us[v] EXCEPT !.pos = @ - 1]
        ELSE us[v]]

\* Array.from(this.users.values()): the keys in insertion order.
getAll(us) ==
    [i \in 1..Size(us) |-> CHOOSE u \in DOMAIN us : us[u].present /\ us[u].pos = i]

\* this.getAll().filter(u => !u.rescued)
getPending(us) == SelectSeq(getAll(us), LAMBDA u : ~us[u].rescued)

\* Variant: the flag set without the outcome reference.
markRescued_KeepsHash(us, u, txHash) ==
    IF us[u].present THEN [us EXCEPT ![u].rescued = TRUE] ELSE us

markRescued(us, u, txHash) ==
    IF us[u].present
    THEN [us EXCEPT ![u].rescued = TRUE, ![u].rescueTxHash = txHash]
    ELSE us

updateLastChecked(us, u, t) ==
    IF us[u].present THEN [us EXCEPT ![u].lastChecked = t] ELSE us

\* AutoUnstakeBot.registerUser: a fresh entry, whatever was stored before.
registerUser(us, u, authorization, maxFeeBps, t) ==
    register(us, u, [present |-> TRUE, pos |-> 0, auth |-> authorization, maxFeeBps |-> maxFeeBps,
                     registeredAt |-> t, lastChecked |-> 0,
                     rescued |-> FALSE, rescueTxHash |-> 0])

\* AutoUnstakeBot.getStakeInfo
getStakeInfo(w, user, t) ==
    [amount |-> stakedBalance(w.stk, user),
     unlockTime |-> w.stk[user].unlockTime,
     canRescue |-> canUnstake(w.stk, user, t) /\ stakedBalance(w.stk, user) > 0]

\* Variant: the rate taken in millionths.
MaxFeeOf_PerMillion(amount, maxFeeBps) == (amount * maxFeeBps) \div 1000000

\* maxFee = (amount * BigInt(maxFeeBps)) / 10000n (bot, API route and
\* generateRescueRequest)
MaxFeeOf(amount, maxFeeBps) == (amount * maxFeeBps) \div 10000

\* --------------------------------------------------- validateRescueRequest
\* Variant: a validator that does not compare the fee with the ceiling.
validateRescueRequest_SkipsFee(w, rq, t, clock) ==
    LET e == estimateRescue(w, VAULT, rq.user, t)
    IN  IF e.err # "none" THEN [valid |-> FALSE, reason |-> "Validation error", estimate |-> NoRet]
        ELSE IF ~e.ret.canRescue
             THEN [valid |-> FALSE, reason |-> "Cannot rescue at this time", estimate |-> NoRet]
        ELSE [valid |-> TRUE, reason |-> "", estimate |-> e.ret]

\* The validator of the relayer script on ledger w at block time t, its own
\* clock (Date.now()) reading clock.  It reads canUnstake, then stakes only
\* when that is false, then estimateRescue; a failed read is caught.
validateRescueRequest(w, rq, t, clock) ==
    LET can == canUnstake(w.stk, rq.user, t)
        amount == w.stk[rq.user].amount
        unlockTime == w.stk[rq.user].unlockTime
        e == estimateRescue(w, VAULT, rq.user, t)
    IN  IF ~can /\ amount = 0
        THEN [valid |-> FALSE, reason |-> "User has no stake in this vault", estimate |-> NoRet]
        ELSE IF ~can /\ unlockTime > clock
        THEN [valid |-> FALSE, reason |-> "Stake still locked", estimate |-> NoRet]
        ELSE IF e.err # "none"
        THEN [valid |-> FALSE, reason |-> "Validation error", estimate |-> NoRet]
        ELSE IF ~e.ret.canRescue
        THEN [valid |-> FALSE, reason |-> "Cannot rescue at this time", estimate |-> NoRet]
        ELSE IF e.ret.estimatedFee > rq.maxFee
        THEN [valid |-> FALSE, reason |-> "Fee exceeds max", estimate |-> NoRet]
        ELSE [valid |-> TRUE, reason |-> "", estimate |-> e.ret]

\* ------------------------------------------------ sendProtectedTransaction
\* The endpoint getRpcUrl() selects.
Channel(cfg) == IF cfg.enabled /\ cfg.provider # "public" THEN "protected" ELSE "public"

\* Variant: the fallback taken on the first failed attempt.
FallsBack_OnFirstFailure(cfg, attempt) == cfg.enabled /\ cfg.fallbackToPublic

\* config.enabled && config.fallbackToPublic && attempt === config.maxRetries
FallsBack(cfg, attempt) ==
    cfg.enabled /\ cfg.fallbackToPublic /\ attempt = cfg.maxRetries

\* One submission attempt as history records it: the recursion depth and
\* endpoint it was made at, whether the endpoint returned a hash, the fate
\* of the transaction ("none": it never reached the network), whether it
\* emitted RescueExecuted, the ledger reads made before it, and, for
\* sendProtectedTransaction, the call it belongs to and the provider and
\* wasProtected of the result returned for it.
Attempt(depth, channel, res, rd) ==
    [depth |-> depth, channel |-> channel, accepted |-> res = "accepted",
     status |-> IF res = "error" THEN "none" ELSE "pending",
     record |-> FALSE, reads |-> rd,
     call |-> 1, provider |-> "public", wasProtected |-> FALSE]

\* Variant: wasProtected taken from the configured provider alone.
WasProtected_IgnoresEnabled(cfg, provider) == cfg.provider # "public"

\* wasProtected: this.config.enabled && provider !== 'public'
WasProtected(cfg, provider) == cfg.enabled /\ provider # "public"

\* An attempt of the invocation with locals fr under configuration cfg.
ProtectedAttempt(fr, cfg, res, rd) ==
    [Attempt(fr.depth, Channel(cfg), res, rd) EXCEPT
        !.call = fr.call,
        !.provider = fr.provider,
        !.wasProtected = (res = "accepted") /\ WasProtected(cfg, fr.provider)]

\* What one sendTransaction can do: return a hash, fail without the
\* transaction reaching the network, or fail (time out) although it did.
SendResults == {"accepted", "error", "timeout"}

\* ------------------------------------------------------- specification
Init ==
    /\ totalSupply = InitialSupply
    /\ balanceOf = [a \in Addr |-> IF a = Deployer THEN InitialSupply ELSE 0]
    /\ allowance = [a \in Addr |-> [s \in Addr |-> 0]]
    /\ stakes = [a \in Addr |-> [amount |-> 0, unlockTime |-> 0]]
    /\ lockDuration \in LockDurations
    /\ now = 1
    /\ last = [op |-> "constructor", self |-> ZERO, n |-> 0,
               err |-> "none", e1 |-> 0, e2 |-> 0, ev |-> NoEvent, ret |-> NoRet]
    /\ released = [a \in Stakers |-> FALSE]
    /\ txCount = 0
    /\ OffChainIdle

\* Apply the outcome r of a transaction to the ledger and record the call:
\* who ran it, its error and error arguments; its amount argument n and its
\* event only when it committed (a reverted transaction leaves no log).
Commit(r, op, self, n, ret) ==
    /\ txCount < MaxTx
    /\ txCount' = txCount + 1
    /\ balanceOf' = r.w.bal
    /\ allowance' = r.w.alw
    /\ stakes' = r.w.stk
    /\ last' = [op |-> op, self |-> self, n |-> IF r.err = "none" THEN n ELSE 0,
                err |-> r.err, e1 |-> r.e1, e2 |-> r.e2, ev |-> r.ev, ret |-> ret]
    /\ UNCHANGED <<totalSupply, lockDuration, now>>

Transfer ==
    \E sender \in EOA, to \in TransferTargets, amount \in TransferAmounts :
        /\ Commit(transfer(World, sender, to, amount), "transfer", sender, amount, NoRet)
        /\ UNCHANGED released
        /\ UNCHANGED offchain

Approve ==
    \E sender \in Stakers, spender \in {VAULT, ZERO}, amount \in ApproveAmounts :
        /\ Commit(approve(World, sender, spender, amount), "approve", sender, amount, NoRet)
        /\ UNCHANGED released
        /\ UNCHANGED offchain

Stake ==
    \E sender \in Stakers, amount \in Amounts :
        LET r == stake(World, sender, amount, now, lockDuration)
        IN  /\ Commit(r, "stake", sender, amount, NoRet)
            /\ released' = IF r.err = "none" THEN [released EXCEPT ![sender] = FALSE]
                           ELSE released
            /\ UNCHANGED offchain

Unstake ==
    \E sender \in Stakers :
        /\ Commit(unstake(World, sender, now), "unstake", sender, 0, NoRet)
        /\ UNCHANGED released
        /\ UNCHANGED offchain

ExecuteRescue ==
    \E self \in Stakers, vault \in VaultArgs, relayer \in RelayerArgs, maxFee \in MaxFees :
        LET r == executeRescue(World, self, vault, relayer, maxFee, now)
        IN  /\ Commit(r, "executeRescue", self, maxFee, NoRet)
            /\ released' = IF r.err = "none" THEN [released EXCEPT ![self] = TRUE]
                           ELSE released
            /\ UNCHANGED offchain

EstimateRescue ==
    \E vault \in {VAULT}, user \in Stakers :
        LET r == estimateRescue(World, vault, user, now)
        IN  /\ Commit([err |-> r.err, w |-> r.w, ev |-> NoEvent, e1 |-> 0, e2 |-> 0],
                      "estimateRescue", user, 0, r.ret)
            /\ UNCHANGED released
            /\ UNCHANGED offchain

\* block.timestamp advances between transactions.
Tick ==
    /\ now < MaxTime
    /\ now' = now + 1
    /\ last' = [op |-> "tick", self |-> ZERO, n |-> 0,
                err |-> "none", e1 |-> 0, e2 |-> 0, ev |-> NoEvent, ret |-> NoRet]
    /\ UNCHANGED <<balanceOf, allowance, totalSupply, stakes, lockDuration, released, txCount>>
    /\ UNCHANGED offchain

Next ==
    \/ Transfer
    \/ Approve
    \/ Stake
    \/ Unstake
    \/ ExecuteRescue
    \/ EstimateRescue
    \/ Tick

Spec == Init /\ [][Next]_vars

\* The fee function on every amount 0..FeeMaxAmount: the ledger after alice
\* approved the vault for r and staked r (lockDuration 0, block.timestamp 1),
\* then estimateRescue and executeRescue on it.
FeeInit ==
    \E r \in 0..FeeMaxAmount :
        LET w0 == [bal |-> [a \in Addr |-> IF a = Deployer THEN InitialSupply ELSE 0],
                   alw |-> [a \in Addr |-> [x \in Addr |-> 0]],
                   stk |-> [a \in Addr |-> [amount |-> 0, unlockTime |-> 0]]]
            w1 == approve(w0, Deployer, VAULT, r).w
            st == stake(w1, Deployer, r, 1, 0)
        IN  /\ totalSupply = InitialSupply
            /\ balanceOf = st.w.bal
            /\ allowance = st.w.alw
            /\ stakes = st.w.stk
            /\ lockDuration = 0
            /\ now = 1
            /\ last = [op |-> "stake", self |-> Deployer, n |-> IF st.err = "none" THEN r ELSE 0,
                       err |-> st.err, e1 |-> st.e1, e2 |-> st.e2, ev |-> NoEvent, ret |-> NoRet]
            /\ released = [a \in Stakers |-> FALSE]
            /\ txCount = 2
            /\ OffChainIdle

FeeNext ==
    \/ EstimateRescue
    \/ ExecuteRescue

FeeSpec == FeeInit /\ [][FeeNext]_vars

\* ------------------------------------------- one request, off the ledger
LedgerSame == UNCHANGED <<balanceOf, allowance, totalSupply, stakes, lockDuration, now,
                          last, released, txCount>>

\* processRescueRequest (relayer script) up to its first submission:
\* validate; a rejected request is logged and dropped.
ProcessRescueRequest ==
    /\ pc = "validating" /\ request.path = "script"
    /\ \E clock \in 1..MaxTime :
          LET v == validateRescueRequest(World, request, now, clock)
          IN  /\ pc' = IF v.valid THEN "sending" ELSE "done"
              /\ outcome' = IF v.valid THEN outcome ELSE Failed(v.reason, 0)
    /\ reads' = reads + 1
    /\ UNCHANGED <<request, config, frame, sent, users>>
    /\ LedgerSame
    /\ UNCHANGED monitor

\* AutoUnstakeBot.executeRescue up to its first submission: getStakeInfo,
\* refuse unless canRescue, derive maxFee from the registration's maxFeeBps.
BotExecuteRescue ==
    /\ pc = "validating" /\ request.path = "bot"
    /\ LET stakeInfo == getStakeInfo(World, request.user, now)
       IN  IF ~stakeInfo.canRescue
           THEN /\ pc' = "done"
                /\ outcome' = Failed("Cannot rescue yet (locked or no stake)", 0)
                /\ UNCHANGED request
           ELSE /\ pc' = "sending"
                /\ request' = [request EXCEPT !.maxFee = MaxFeeOf(stakeInfo.amount, request.maxFeeBps)]
                /\ UNCHANGED outcome
    /\ reads' = reads + 1
    /\ UNCHANGED <<config, frame, sent, users>>
    /\ LedgerSame
    /\ UNCHANGED monitor

\* POST /api/rescue up to its submission: estimateRescue, 400 on no stake
\* or a locked stake, sign the authorization for the delegate server-side,
\* derive maxFee from maxFeeBps.  A failed read is answered with 500.
ApiPost ==
    /\ pc = "validating" /\ request.path = "api"
    /\ LET estimate == estimateRescue(World, VAULT, request.user, now)
       IN  IF estimate.err # "none"
           THEN /\ pc' = "done" /\ outcome' = Failed("Rescue transaction failed", 0)
                /\ UNCHANGED request
           ELSE IF estimate.ret.stakedAmount = 0
           THEN /\ pc' = "done" /\ outcome' = Failed("No stake to rescue", 0)
                /\ UNCHANGED request
           ELSE IF ~estimate.ret.canRescue
           THEN /\ pc' = "done" /\ outcome' = Failed("Stake is still locked", 0)
                /\ UNCHANGED request
           ELSE /\ pc' = "sending"
                /\ request' = [request EXCEPT
                                 !.auth = "ok",
                                 !.maxFee = MaxFeeOf(estimate.ret.stakedAmount, request.maxFeeBps)]
                /\ UNCHANGED outcome
    /\ reads' = reads + 1
    /\ UNCHANGED <<config, frame, sent, users>>
    /\ LedgerSame
    /\ UNCHANGED monitor

\* One turn of the loop of sendProtectedTransaction (script and bot): leave
\* the loop and throw when attempt > maxRetries; otherwise send once.  A hash
\* ends the call; an error is kept as lastError and moves to the next
\* attempt, or disables the protection and calls sendProtectedTransaction
\* again (a new invocation, its lastError not set).
SendProtectedTransaction ==
    /\ pc = "sending" /\ request.path \in {"script", "bot"}
    /\ IF frame.attempt > config.maxRetries
       THEN /\ pc' = "done"
            /\ outcome' = Thrown(frame.lastError)
            /\ UNCHANGED <<config, frame, sent>>
       ELSE \E res \in SendResults :
              /\ sent' = Append(sent, ProtectedAttempt(frame, config, res, reads))
              /\ IF res = "accepted"
                 THEN pc' = "awaiting" /\ UNCHANGED <<config, frame>>
                 ELSE IF FallsBack(config, frame.attempt)
                 THEN /\ config' = [config EXCEPT !.enabled = FALSE]
                      /\ frame' = NewFrame([config EXCEPT !.enabled = FALSE],
                                          frame.depth + 1, frame.call)
                      /\ UNCHANGED pc
                 ELSE /\ frame' = [frame EXCEPT !.attempt = @ + 1, !.lastError = Len(sent) + 1]
                      /\ UNCHANGED <<pc, config>>
              /\ UNCHANGED outcome
    /\ UNCHANGED <<request, users, reads>>
    /\ LedgerSame
    /\ UNCHANGED monitor

\* relayerWalletClient.sendTransaction of the API route: one attempt on the
\* public endpoint; an error is answered with 500.
ApiSendTransaction ==
    /\ pc = "sending" /\ request.path = "api"
    /\ \E res \in SendResults :
          /\ sent' = Append(sent, Attempt(0, "public", res, reads))
          /\ pc' = IF res = "accepted" THEN "awaiting" ELSE "done"
          /\ outcome' = IF res = "accepted" THEN outcome
                        ELSE Failed("Rescue transaction failed", 0)
    /\ UNCHANGED <<request, config, frame, users, reads>>
    /\ LedgerSame
    /\ UNCHANGED monitor

\* A submitted transaction is mined: the call to the account runs
\* executeRescue when the authorization delegates the account to
\* UnstakeDelegate; under any other authorization the code that runs is not
\* the delegate's and the transaction succeeds or reverts, the ledger as it was.
Mine ==
    \E i \in DOMAIN sent :
        /\ sent[i].status = "pending"
        /\ \E other \in {"none", "Reverted"} :
              LET r == IF request.auth = "ok"
                       THEN executeRescue(World, request.user, VAULT, "relayer", request.maxFee, now)
                       ELSE [err |-> other, w |-> World, ev |-> NoEvent, e1 |-> 0, e2 |-> 0]
              IN  /\ Commit(r, IF request.auth = "ok" THEN "executeRescue" ELSE "call",
                            request.user, request.maxFee, NoRet)
                  /\ released' = IF r.ev.emitted THEN [released EXCEPT ![request.user] = TRUE]
                                 ELSE released
                  /\ sent' = [sent EXCEPT ![i].status = IF r.err = "none" THEN "success" ELSE "reverted",
                                          ![i].record = r.ev.emitted]
        /\ UNCHANGED <<request, pc, config, frame, outcome, users, reads>>
        /\ UNCHANGED monitor

\* Variant: a reverted receipt sends the script and the bot back to submit.
WaitForTransactionReceipt_Retries ==
    /\ pc = "awaiting"
    /\ LET hash == Len(sent)
           status == sent[hash].status
       IN  /\ status \in {"success", "reverted"}
           /\ outcome' = IF request.path = "api" \/ status = "success"
                         THEN Succeeded(hash)
                         ELSE outcome
           /\ pc' = IF request.path = "api" \/ status = "success" THEN "done" ELSE "sending"
           /\ users' = IF request.path = "bot" /\ status = "success"
                       THEN markRescued(users, request.user, hash)
                       ELSE users
    /\ frame' = [frame EXCEPT !.attempt = @ + 1]
    /\ UNCHANGED <<request, config, sent, reads>>
    /\ LedgerSame
    /\ UNCHANGED monitor

\* waitForTransactionReceipt returned the receipt of the submitted hash.
\* The script and the bot report by receipt.status, the bot marking the
\* registration rescued; the API route answers success: true.
WaitForTransactionReceipt ==
    /\ pc = "awaiting"
    /\ LET hash == Len(sent)
           status == sent[hash].status
       IN  /\ status \in {"success", "reverted"}
           /\ outcome' = IF request.path = "api" \/ status = "success"
                         THEN Succeeded(hash)
                         ELSE Failed("Transaction reverted", hash)
           /\ users' = IF request.path = "bot" /\ status = "success"
                       THEN markRescued(users, request.user, hash)
                       ELSE users
    /\ pc' = "done"
    /\ UNCHANGED <<request, config, frame, sent, reads>>
    /\ LedgerSame
    /\ UNCHANGED monitor

\* waitForTransactionReceipt gave up on a transaction not mined yet and
\* threw; the handler catches it and reports the error.
WaitTimeout ==
    /\ pc = "awaiting"
    /\ sent[Len(sent)].status = "pending"
    /\ pc' = "done"
    /\ outcome' = Failed("Timed out while waiting for transaction", 0)
    /\ UNCHANGED <<request, config, frame, sent, users, reads>>
    /\ LedgerSame
    /\ UNCHANGED monitor

\* The requests a handler can be given.
RelayRequests ==
    [path : {"script"}, user : {RelayUser}, auth : AuthKinds,
     maxFee : RequestMaxFees, maxFeeBps : {0}]
    \cup [path : {"bot"}, user : {RelayUser}, auth : AuthKinds,
          maxFee : {0}, maxFeeBps : MaxFeeBpsArgs]
    \cup [path : {"api"}, user : {RelayUser}, auth : {"ok"},
          maxFee : {0}, maxFeeBps : MaxFeeBpsArgs]

\* The ledger after RelayUser approved the vault for S and staked S at
\* block time 1 under lockDuration ld (nothing staked when S = 0).
LedgerAfterStake(S, ld) ==
    LET w0 == [bal |-> [a \in Addr |-> IF a = Deployer THEN InitialSupply ELSE 0],
               alw |-> [a \in Addr |-> [x \in Addr |-> 0]],
               stk |-> [a \in Addr |-> [amount |-> 0, unlockTime |-> 0]]]
        w1 == approve(w0, RelayUser, VAULT, S).w
        st == stake(w1, RelayUser, S, 1, ld)
    IN  /\ totalSupply = InitialSupply
        /\ balanceOf = st.w.bal
        /\ allowance = st.w.alw
        /\ stakes = st.w.stk
        /\ lockDuration = ld
        /\ now = 1
        /\ last = [op |-> "stake", self |-> RelayUser, n |-> IF st.err = "none" THEN S ELSE 0,
                   err |-> st.err, e1 |-> st.e1, e2 |-> st.e2, ev |-> NoEvent, ret |-> NoRet]
        /\ released = [a \in Stakers |-> FALSE]
        /\ txCount = 0

\* One request handed to the script, the bot (for a registered account) or
\* the API route, the stake locked until block time 2.
RelayInit ==
    \E S \in RelayStakes, rq \in RelayRequests, en \in BOOLEAN, n \in 1..RelayRetries :
        /\ LedgerAfterStake(S, 1)
        /\ request = rq
        /\ pc = "validating"
        /\ config = [DEFAULT_CONFIG EXCEPT !.enabled = (en \/ rq.path # "script"),
                                           !.maxRetries = n]
        /\ frame = NewFrame(config, 0, 1)
        /\ sent = <<>>
        /\ outcome = NoOutcome
        /\ users = IF rq.path = "bot"
                   THEN registerUser([u \in Stakers |-> NoUser], rq.user, rq.auth, rq.maxFeeBps, 1)
                   ELSE [u \in Stakers |-> NoUser]
        /\ reads = 0
        /\ maxConcurrentRescues = BOT_DEFAULT_CONFIG.maxConcurrentRescues
        /\ cycles = [i \in 1..MaxCycles |-> NoCycle]

RelayNext ==
    \/ ProcessRescueRequest
    \/ BotExecuteRescue
    \/ ApiPost
    \/ SendProtectedTransaction
    \/ ApiSendTransaction
    \/ Mine
    \/ WaitForTransactionReceipt
    \/ WaitTimeout
    \/ Tick

RelaySpec == RelayInit /\ [][RelayNext]_vars

\* ------------------------------------ the fee ceiling derived off-chain
\* The amounts staked: every amount up to CeilingMaxStake, and amounts
\* around the one whose product with the rate leaves the word.
CeilingStakes == (0..CeilingMaxStake) \cup {1000, 1310, 1311, 1400}
\* The maxFeeBps a request or registration carries (the default is 200).
CeilingBps == {0, 50, 99, 100, 101, 200}

\* The ceiling is derived as floor(stake * maxFeeBps / 10000) by
\* generateRescueRequest before the request goes to the script, by the bot
\* and by the API route from the stake they read; the stake is unlocked.
CeilingInit ==
    \E S \in CeilingStakes, path \in {"script", "bot", "api"}, bps \in CeilingBps :
        /\ LedgerAfterStake(S, 0)
        /\ request = [path |-> path, user |-> RelayUser, auth |-> "ok",
                      maxFee |-> IF path = "script" THEN MaxFeeOf(S, bps) ELSE 0,
                      maxFeeBps |-> bps]
        /\ pc = "validating"
        /\ config = [DEFAULT_CONFIG EXCEPT !.maxRetries = 1]
        /\ frame = NewFrame(config, 0, 1)
        /\ sent = <<>>
        /\ outcome = NoOutcome
        /\ users = IF path = "bot"
                   THEN registerUser([u \in Stakers |-> NoUser], RelayUser, "ok", bps, 1)
                   ELSE [u \in Stakers |-> NoUser]
        /\ reads = 0
        /\ maxConcurrentRescues = BOT_DEFAULT_CONFIG.maxConcurrentRescues
        /\ cycles = [i \in 1..MaxCycles |-> NoCycle]

CeilingSpec == CeilingInit /\ [][RelayNext]_vars

\* --------------------------------------- executeRescue at any vault
\* The vault arguments of executeRescue, a foreign contract included.
AnyVaultArgs == VaultArgs \cup {IDLE}

ExecuteRescueAt ==
    \E self \in Stakers, vault \in AnyVaultArgs, relayer \in RelayerArgs, maxFee \in MaxFees :
        LET r == executeRescue(World, self, vault, relayer, maxFee, now)
        IN  /\ Commit(r, "executeRescue", self, maxFee, NoRet)
            /\ released' = IF r.err = "none" THEN [released EXCEPT ![self] = TRUE]
                           ELSE released
            /\ UNCHANGED offchain

\* alice has staked S (nothing when S = 0), locked until block time 2.
VaultInit ==
    \E S \in RelayStakes :
        /\ LedgerAfterStake(S, 1)
        /\ OffChainIdle

VaultNext ==
    \/ ExecuteRescueAt
    \/ Unstake
    \/ Tick

VaultSpec == VaultInit /\ [][VaultNext]_vars

\* sendProtectedTransaction alone, under every configuration.
SendInit ==
    \E en \in BOOLEAN, fb \in BOOLEAN, n \in 0..MaxRetries :
        /\ LedgerAfterStake(1000, 0)
        /\ request = [path |-> "script", user |-> RelayUser, auth |-> "ok",
                      maxFee |-> 10, maxFeeBps |-> 0]
        /\ pc = "sending"
        /\ config = [DEFAULT_CONFIG EXCEPT !.enabled = en, !.maxRetries = n,
                                           !.fallbackToPublic = fb]
        /\ frame = NewFrame(config, 0, 1)
        /\ sent = <<>>
        /\ outcome = NoOutcome
        /\ users = [u \in Stakers |-> NoUser]
        /\ reads = 1
        /\ maxConcurrentRescues = BOT_DEFAULT_CONFIG.maxConcurrentRescues
        /\ cycles = [i \in 1..MaxCycles |-> NoCycle]

SendNext == SendProtectedTransaction

SendSpec == SendInit /\ [][SendNext]_vars

\* Every submission attempt returns or throws: the loop keeps turning.
SendFairSpec == SendInit /\ [][SendNext]_vars /\ WF_vars(SendProtectedTransaction)

\* ------------------------------- several calls on one relayer instance
\* A further sendProtectedTransaction call on the instance, after the one
\* before returned or threw; this.config is what that call left.
CallAgain ==
    /\ pc \in {"awaiting", "done"}
    /\ frame.call < MaxCalls
    /\ pc' = "sending"
    /\ frame' = NewFrame(config, 0, frame.call + 1)
    /\ outcome' = NoOutcome
    /\ UNCHANGED <<request, config, sent, users, reads>>
    /\ LedgerSame
    /\ UNCHANGED monitor

\* An instance constructed with any configuration, its first call begun.
InstanceInit ==
    \E en \in BOOLEAN, fb \in BOOLEAN, n \in 0..InstanceRetries, p \in Providers :
        /\ LedgerAfterStake(1000, 0)
        /\ request = [path |-> "script", user |-> RelayUser, auth |-> "ok",
                      maxFee |-> 10, maxFeeBps |-> 0]
        /\ pc = "sending"
        /\ config = [enabled |-> en, provider |-> p, maxRetries |-> n, fallbackToPublic |-> fb]
        /\ frame = NewFrame(config, 0, 1)
        /\ sent = <<>>
        /\ outcome = NoOutcome
        /\ users = [u \in Stakers |-> NoUser]
        /\ reads = 1
        /\ maxConcurrentRescues = BOT_DEFAULT_CONFIG.maxConcurrentRescues
        /\ cycles = [i \in 1..MaxCycles |-> NoCycle]

InstanceNext ==
    \/ SendProtectedTransaction
    \/ CallAgain

InstanceSpec == InstanceInit /\ [][InstanceNext]_vars

\* ------------------------------------------------- the bot's registry
\* What the ledger and the submission did for one pending account of a
\* scan: -1 the stake read failed, 0 checked and not rescued, otherwise the
\* hash of the confirmed rescue.
ScanResults == {-1, 0} \cup TxHashes

\* One pass of checkAndRescue over the pending accounts (at most two, below
\* maxConcurrentRescues): updateLastChecked after the stake read, markRescued
\* after a confirmed rescue.
scan(us, res, t) ==
    [u \in DOMAIN us |->
        IF u \notin Range(getPending(us)) \/ res[u] = -1 THEN us[u]
        ELSE IF res[u] = 0 THEN updateLastChecked(us, u, t)[u]
        ELSE markRescued(updateLastChecked(us, u, t), u, res[u])[u]]

RegisterUser ==
    /\ \E u \in Stakers, maxFeeBps \in MaxFeeBpsArgs :
          users' = registerUser(users, u, "ok", maxFeeBps, now)
    /\ UNCHANGED <<request, pc, config, frame, sent, outcome, reads>>
    /\ LedgerSame
    /\ UNCHANGED monitor

Unregister ==
    /\ \E u \in Stakers : users' = unregister(users, u)
    /\ UNCHANGED <<request, pc, config, frame, sent, outcome, reads>>
    /\ LedgerSame
    /\ UNCHANGED monitor

MarkRescued ==
    /\ \E u \in Stakers, txHash \in TxHashes : users' = markRescued(users, u, txHash)
    /\ UNCHANGED <<request, pc, config, frame, sent, outcome, reads>>
    /\ LedgerSame
    /\ UNCHANGED monitor

UpdateLastChecked ==
    /\ \E u \in Stakers : users' = updateLastChecked(users, u, now)
    /\ UNCHANGED <<request, pc, config, frame, sent, outcome, reads>>
    /\ LedgerSame
    /\ UNCHANGED monitor

CheckAndRescue ==
    /\ getPending(users) # <<>>
    /\ \E res \in [Stakers -> ScanResults] : users' = scan(users, res, now)
    /\ UNCHANGED <<request, pc, config, frame, sent, outcome, reads>>
    /\ LedgerSame
    /\ UNCHANGED monitor

\* An empty registry; the clock of registeredAt and lastChecked is now.
RegistryInit ==
    /\ LedgerAfterStake(0, 1)
    /\ OffChainIdle

RegistryNext ==
    \/ RegisterUser
    \/ Unregister
    \/ MarkRescued
    \/ UpdateLastChecked
    \/ CheckAndRescue
    \/ Tick

RegistrySpec == RegistryInit /\ [][RegistryNext]_vars

\* ------------------------------------------------- the monitor's cycles
\* pendingUsers.slice(0, this.config.maxConcurrentRescues)
slice(q, n) == SubSeq(q, 1, IF Len(q) < n THEN Len(q) ELSE n)

\* One transaction the monitor submitted, as history records it: the
\* account called, the maxFee in its call data and its fate.
Submission(u, maxFee) == [user |-> u, maxFee |-> maxFee, status |-> "pending"]

\* The for loop of checkAndRescue moves on from the account in hand; the
\* invocation returns after the last one.
NextUser(c) ==
    IF Len(c.todo) <= 1 THEN NoCycle
    ELSE [pc |-> "check", todo |-> Tail(c.todo), maxFee |-> 0, hash |-> 0]

\* start() and every tick of its setInterval call checkAndRescue, whether or
\* not an earlier invocation has returned: snapshot the pending entries,
\* return if there are none, keep the first maxConcurrentRescues.
IntervalFires ==
    /\ \E i \in 1..MaxCycles :
          /\ cycles[i] = NoCycle
          /\ \A j \in 1..(i - 1) : cycles[j] # NoCycle
          /\ getPending(users) # <<>>
          /\ cycles' = [cycles EXCEPT ![i] =
                          [pc |-> "check", todo |-> slice(getPending(users), maxConcurrentRescues),
                           maxFee |-> 0, hash |-> 0]]
    /\ UNCHANGED <<request, pc, config, frame, sent, outcome, users, reads, maxConcurrentRescues>>
    /\ LedgerSame

\* The loop body of checkAndRescue for the account in hand: getStakeInfo
\* (the read is answered), updateLastChecked, executeRescue when canRescue.
ScanGetStakeInfo(i) ==
    /\ cycles[i].pc = "check"
    /\ LET c == cycles[i]
           u == Head(c.todo)
           stakeInfo == getStakeInfo(World, u, now)
       IN  /\ users' = updateLastChecked(users, u, now)
           /\ cycles' = [cycles EXCEPT ![i] =
                           IF stakeInfo.canRescue THEN [c EXCEPT !.pc = "rescue"]
                           ELSE NextUser(c)]
    /\ UNCHANGED <<request, pc, config, frame, sent, outcome, reads, maxConcurrentRescues>>
    /\ LedgerSame

\* AutoUnstakeBot.executeRescue inside the loop, up to its submission:
\* getStakeInfo again, refuse unless canRescue, derive maxFee.
RescueGetStakeInfo(i) ==
    /\ cycles[i].pc = "rescue"
    /\ LET c == cycles[i]
           u == Head(c.todo)
           stakeInfo == getStakeInfo(World, u, now)
       IN  cycles' = [cycles EXCEPT ![i] =
                        IF stakeInfo.canRescue
                        THEN [c EXCEPT !.pc = "send",
                                       !.maxFee = MaxFeeOf(stakeInfo.amount, users[u].maxFeeBps)]
                        ELSE NextUser(c)]
    /\ UNCHANGED <<request, pc, config, frame, sent, outcome, users, reads, maxConcurrentRescues>>
    /\ LedgerSame

\* sendProtectedTransaction as executeRescue sees it: it returns a hash, or
\* throws, its transaction on the network or not; the throw is caught and
\* the loop moves on.  Beyond MaxSubmissions the channel takes nothing.
RescueSend(i) ==
    /\ cycles[i].pc = "send"
    /\ \E res \in SendResults :
          LET c == cycles[i]
              u == Head(c.todo)
          IN  /\ Len(sent) >= MaxSubmissions => res = "error"
              /\ sent' = IF res = "error" THEN sent ELSE Append(sent, Submission(u, c.maxFee))
              /\ cycles' = [cycles EXCEPT ![i] =
                              IF res = "accepted"
                              THEN [c EXCEPT !.pc = "wait", !.hash = Len(sent) + 1]
                              ELSE NextUser(c)]
    /\ UNCHANGED <<request, pc, config, frame, outcome, users, reads, maxConcurrentRescues>>
    /\ LedgerSame

\* A transaction of the monitor is mined: executeRescue runs as the account.
MineRescue ==
    /\ \E h \in DOMAIN sent :
          /\ sent[h].status = "pending"
          /\ LET r == executeRescue(World, sent[h].user, VAULT, "relayer", sent[h].maxFee, now)
             IN  /\ Commit(r, "executeRescue", sent[h].user, sent[h].maxFee, NoRet)
                 /\ released' = IF r.ev.emitted THEN [released EXCEPT ![sent[h].user] = TRUE]
                                ELSE released
                 /\ sent' = [sent EXCEPT ![h].status =
                                IF r.err = "none" THEN "success" ELSE "reverted"]
    /\ UNCHANGED <<request, pc, config, frame, outcome, users, reads>>
    /\ UNCHANGED monitor

\* waitForTransactionReceipt returned inside executeRescue: markRescued on
\* status success, nothing on reverted; the loop moves on.
RescueReceipt(i) ==
    /\ cycles[i].pc = "wait"
    /\ LET c == cycles[i]
           u == Head(c.todo)
           status == sent[c.hash].status
       IN  /\ status \in {"success", "reverted"}
           /\ users' = IF status = "success" THEN markRescued(users, u, c.hash) ELSE users
           /\ cycles' = [cycles EXCEPT ![i] = NextUser(c)]
    /\ UNCHANGED <<request, pc, config, frame, sent, outcome, reads, maxConcurrentRescues>>
    /\ LedgerSame

\* waitForTransactionReceipt threw (timed out) on a transaction not mined;
\* executeRescue catches it and the loop moves on.
RescueReceiptTimeout(i) ==
    /\ cycles[i].pc = "wait"
    /\ sent[cycles[i].hash].status = "pending"
    /\ cycles' = [cycles EXCEPT ![i] = NextUser(cycles[i])]
    /\ UNCHANGED <<request, pc, config, frame, sent, outcome, users, reads, maxConcurrentRescues>>
    /\ LedgerSame

\* Every step of the invocation in slot i.
CycleStep(i) ==
    \/ ScanGetStakeInfo(i)
    \/ RescueGetStakeInfo(i)
    \/ RescueSend(i)
    \/ RescueReceipt(i)
    \/ RescueReceiptTimeout(i)

\* Amounts alice and bob have staked when the monitor starts.
MonitorStakes == {0, 1000}

\* The ledger after bob was funded with Sb by the deployer and alice and bob
\* approved the vault and staked Sa and Sb at block time 1 (lockDuration 1).
LedgerAfterStakes(Sa, Sb) ==
    LET w0 == [bal |-> [a \in Addr |-> IF a = Deployer THEN InitialSupply ELSE 0],
               alw |-> [a \in Addr |-> [x \in Addr |-> 0]],
               stk |-> [a \in Addr |-> [amount |-> 0, unlockTime |-> 0]]]
        w1 == transfer(w0, Deployer, "bob", Sb).w
        w2 == approve(approve(w1, "alice", VAULT, Sa).w, "bob", VAULT, Sb).w
        w3 == stake(w2, "alice", Sa, 1, 1).w
    IN  stake(w3, "bob", Sb, 1, 1).w

\* The monitor started with alice registered before bob (both for the
\* delegate, alice at either rate), the stakes locked until block time 2,
\* the block time before or at the unlock time.
MonitorInit ==
    \E Sa \in MonitorStakes, Sb \in MonitorStakes, bps \in MaxFeeBpsArgs, n \in 1..MaxConcurrent,
       t \in 1..2 :
        LET w == LedgerAfterStakes(Sa, Sb)
            us1 == registerUser([u \in Stakers |-> NoUser], "alice", "ok", bps, 1)
        IN  /\ totalSupply = InitialSupply
            /\ balanceOf = w.bal
            /\ allowance = w.alw
            /\ stakes = w.stk
            /\ lockDuration = 1
            /\ now = t
            /\ last = [op |-> "constructor", self |-> ZERO, n |-> 0,
                       err |-> "none", e1 |-> 0, e2 |-> 0, ev |-> NoEvent, ret |-> NoRet]
            /\ released = [a \in Stakers |-> FALSE]
            /\ txCount = 0
            /\ request = NoRequest
            /\ pc = "idle"
            /\ config = DEFAULT_CONFIG
            /\ frame = NewFrame(config, 0, 1)
            /\ sent = <<>>
            /\ outcome = NoOutcome
            /\ users = registerUser(us1, "bob", "ok", 200, 1)
            /\ reads = 0
            /\ maxConcurrentRescues = n
            /\ cycles = [i \in 1..MaxCycles |-> NoCycle]

MonitorNext ==
    \/ IntervalFires
    \/ \E i \in 1..MaxCycles : CycleStep(i)
    \/ MineRescue

MonitorSpec == MonitorInit /\ [][MonitorNext]_vars

\* The interval timer keeps firing and every await of a running invocation
\* returns or throws; nothing obliges the network to mine.
MonitorFairSpec ==
    /\ MonitorInit /\ [][MonitorNext]_vars
    /\ WF_vars(IntervalFires)
    /\ \A i \in 1..MaxCycles : WF_vars(CycleStep(i))

TypeOK ==
    /\ \A a \in Addr : balanceOf[a] \in 0..UintMax
    /\ \A a \in Addr : stakes[a].amount \in 0..UintMax /\ stakes[a].unlockTime \in 0..UintMax
    /\ now \in 1..MaxTime

\* ============================================================ properties
\* The step is a call of op (every transaction advances txCount).
Called(op) == txCount' = txCount + 1 /\ last'.op = op
LedgerUnchanged == UNCHANGED <<balanceOf, allowance, stakes, totalSupply>>
\* The position of account a cannot be released at the current time.
NotEligible(a) == stakes[a].amount = 0 \/ now < stakes[a].unlockTime

\* C1: every RescueExecuted record of executeRescue has
\* relayerFee + userReceived = totalUnstaked and relayerFee <= the maxFee of
\* the call, and a committed executeRescue emits exactly such a record.
C1_Conservation ==
    /\ last.ev.emitted => last.op = "executeRescue" /\ last.err = "none"
    /\ (last.op = "executeRescue" /\ last.err = "none") =>
          /\ last.ev.emitted
          /\ last.ev.relayerFee + last.ev.userReceived = last.ev.totalUnstaked
          /\ last.ev.relayerFee <= last.n

\* A rescue of 1000 with fee 10 under the tight ceiling 10 was recorded.
C1_Witness ==
    /\ last.op = "executeRescue" /\ last.err = "none" /\ last.ev.emitted
    /\ last.ev.totalUnstaked = 1000 /\ last.ev.relayerFee = 10 /\ last.n = 10

\* C2: an executeRescue that fails after the vault released the stake is
\* void: balances, allowances and positions are what they were before, the
\* account is still eligible, and the same call with maxFee = the computed
\* fee then releases the stake.
C2_FailureIsVoid ==
    [][(Called("executeRescue") /\ last'.err \notin ({"none", "CannotUnstake"} \cup InvalidTargetErrs)) =>
          /\ LedgerUnchanged
          /\ ~NotEligible(last'.self)
          /\ last'.err = "FeeTooHigh" =>
                executeRescue(World, last'.self, VAULT, "relayer", last'.e1, now).err = "none"]_vars

\* Stake 1000, ceiling 5: FeeTooHigh(10, 5), the 1000 tokens still staked.
C2_Witness ==
    /\ last.op = "executeRescue" /\ last.err = "FeeTooHigh"
    /\ last.e1 = 10 /\ last.e2 = 5
    /\ stakes[last.self].amount = 1000

\* C3: with a real vault and a non-zero relayer, executeRescue fails with
\* CannotUnstake for every account whose staked amount is 0 or whose unlock
\* time is in the future; nothing changes and no record is emitted.
C3_Inv ==
    \A self \in Stakers, relayer \in Addr \ {ZERO}, maxFee \in MaxFees :
        NotEligible(self) =>
            LET r == executeRescue(World, self, VAULT, relayer, maxFee, now)
            IN  r.err = "CannotUnstake" /\ r.w = World /\ ~r.ev.emitted

C3_NotEligible ==
    /\ []C3_Inv
    /\ [][(Called("executeRescue") /\ NotEligible(last'.self) /\ last'.err \notin InvalidTargetErrs) =>
            last'.err = "CannotUnstake" /\ LedgerUnchanged /\ ~last'.ev.emitted]_vars

\* executeRescue failed with CannotUnstake on a position that is still locked.
C3_Witness ==
    /\ last.op = "executeRescue" /\ last.err = "CannotUnstake"
    /\ stakes[last.self].amount > 0 /\ now < stakes[last.self].unlockTime

\* C4: after a committed executeRescue for an account, every executeRescue
\* for that account with no stake in between fails with CannotUnstake and
\* moves no tokens.
C4_NoDoubleRelease ==
    /\ [](\A a \in Stakers : released[a] => NotEligible(a))
    /\ [][(Called("executeRescue") /\ released[last'.self] /\ last'.err \notin InvalidTargetErrs) =>
            last'.err = "CannotUnstake" /\ LedgerUnchanged /\ ~last'.ev.emitted]_vars

\* A second executeRescue for a rescued account was refused.
C4_Witness ==
    /\ last.op = "executeRescue" /\ last.err = "CannotUnstake"
    /\ released[last.self]

\* What C5 promises for account self, relayer and ceiling maxFee in the
\* current state: the call commits, the position is emptied, the relayer
\* gains floor(S*100/10000) and the account ends with B + S - fee.
RescueSettles(self, relayer, maxFee) ==
    LET S == stakes[self].amount
        B == balanceOf[self]
        fee == (S * 100) \div 10000
        r == executeRescue(World, self, VAULT, relayer, maxFee, now)
    IN  /\ r.err = "none"
        /\ r.w.stk[self].amount = 0
        /\ r.w.bal[relayer] = balanceOf[relayer] + fee
        /\ r.w.bal[self] = B + S - fee
        /\ r.ev.totalUnstaked = S /\ r.ev.relayerFee = fee /\ r.ev.userReceived = S - fee

\* C5 as stated: for every eligible position, every non-zero relayer and
\* every maxFee >= floor(S*100/10000), executeRescue succeeds, empties the
\* position, pays the relayer exactly the fee and leaves the account B + S - fee.
C5_Original ==
    \A self \in Stakers, relayer \in Addr \ {ZERO}, maxFee \in MaxFees \cup {0, UintMax} :
        (~NotEligible(self) /\ maxFee >= (stakes[self].amount * 100) \div 10000)
            => RescueSettles(self, relayer, maxFee)

\* The cases C5 as stated gets wrong, for an eligible position S of self with
\* wallet balance B: relayer = self leaves the account B + S, relayer = vault
\* changes the vault's balance by fee - S, and S*100 beyond the word reverts.
RescueAliased(self, maxFee) ==
    LET S == stakes[self].amount
        fee == (S * 100) \div 10000
        own == executeRescue(World, self, VAULT, self, maxFee, now)
        vlt == executeRescue(World, self, VAULT, VAULT, maxFee, now)
    IN  IF S * 100 > UintMax
        THEN own.err = "Panic" /\ own.w = World /\ vlt.err = "Panic" /\ vlt.w = World
        ELSE /\ own.err = "none" /\ own.w.bal[self] = balanceOf[self] + S
             /\ vlt.err = "none" /\ vlt.w.bal[VAULT] = balanceOf[VAULT] - S + fee
             /\ vlt.w.bal[self] = balanceOf[self] + S - fee

\* C5 amended: the same, for a relayer that is neither the account itself
\* nor the vault and a staked amount S whose product S*100 is representable;
\* committed executeRescue steps move the balances accordingly.
C5_RescueSettles ==
    /\ [](\A self \in Stakers, maxFee \in MaxFees \cup {0, UintMax} :
            (~NotEligible(self) /\ maxFee >= (stakes[self].amount * 100) \div 10000)
                => RescueAliased(self, maxFee))
    /\ [](\A self \in Stakers, relayer \in Addr \ {ZERO, VAULT},
              maxFee \in MaxFees \cup {0, UintMax} :
            (/\ ~NotEligible(self)
             /\ relayer # self
             /\ stakes[self].amount * 100 <= UintMax
             /\ maxFee >= (stakes[self].amount * 100) \div 10000)
                => RescueSettles(self, relayer, maxFee))
    /\ [][(/\ Called("executeRescue") /\ last'.err = "none"
           /\ last'.ev.relayer \notin {last'.self, VAULT}) =>
             LET a == last'.self
                 fee == (stakes[a].amount * 100) \div 10000
             IN  /\ stakes'[a].amount = 0
                 /\ balanceOf'[last'.ev.relayer] = balanceOf[last'.ev.relayer] + fee
                 /\ balanceOf'[a] = balanceOf[a] + stakes[a].amount - fee]_vars

\* Stake 1000, ceiling 200: released 1000, fee 10, net 990, on top of a
\* wallet balance that was not zero.
C5_Witness ==
    /\ last.op = "executeRescue" /\ last.err = "none" /\ last.n = 200
    /\ last.ev.totalUnstaked = 1000 /\ last.ev.relayerFee = 10 /\ last.ev.userReceived = 990
    /\ last.ev.relayer = "relayer"
    /\ balanceOf[last.self] > 990
    /\ stakes[last.self].amount = 0

\* C6: the relayer is paid if and only if the unstake succeeds: a committed
\* executeRescue raises the relayer's balance by a positive fee, and a failed
\* one changes no balance.  Stated for a relayer other than the account and
\* the vault.
C6_PaidIffReleased ==
    [][Called("executeRescue") =>
         /\ (last'.err = "none" /\ last'.ev.relayer \notin {last'.self, VAULT}) =>
               /\ stakes'[last'.self].amount = 0
               /\ balanceOf'[last'.ev.relayer] > balanceOf[last'.ev.relayer]
         /\ last'.err # "none" => UNCHANGED <<balanceOf, stakes>>]_vars

\* f is floor(r * rate / 10000) for the rate of 100 bps, stated without
\* division: f*10000 <= r*100 < (f+1)*10000.
IsFloorFee(f, r) == f * 10000 <= r * 100 /\ r * 100 < (f + 1) * 10000

EstimateOf(a) ==
    LET amt == stakes[a].amount
        fee == (amt * 100) \div 10000
    IN  [stakedAmount |-> amt, estimatedFee |-> fee, userWouldReceive |-> amt - fee,
         canRescue |-> (amt > 0 /\ now >= stakes[a].unlockTime)]

C10_AmountIffUnlock ==
    \A a \in Addr : (stakes[a].amount = 0) <=> (stakes[a].unlockTime = 0)

\* A position staked under lockDuration 0 (unlockTime = block.timestamp).
C10_Witness ==
    /\ lockDuration = 0
    /\ last.op = "stake" /\ last.err = "none"
    /\ stakes[last.self].amount > 0 /\ stakes[last.self].unlockTime = now

\* C11: unstake() by an account with no stake fails with NoStake, and
\* before the unlock time with StillLocked(unlockTime, now), the ledger
\* unchanged in both cases; otherwise it commits, pays the whole staked
\* amount from the vault to the caller and zeroes amount and unlockTime.  No
\* step ever lowers a position to a non-zero amount.
C11_Unstake ==
    /\ [](\A a \in Addr \ {ZERO} :
            LET r == unstake(World, a, now)
            IN  IF stakes[a].amount = 0
                THEN r.err = "NoStake" /\ r.w = World
                ELSE IF now < stakes[a].unlockTime
                THEN r.err = "StillLocked" /\ r.w = World
                ELSE r.err = "none")
    /\ [][Called("unstake") =>
            LET a == last'.self
                S == stakes[a].amount
            IN  IF S = 0 THEN last'.err = "NoStake" /\ LedgerUnchanged
                ELSE IF now < stakes[a].unlockTime
                THEN /\ last'.err = "StillLocked" /\ LedgerUnchanged
                     /\ last'.e1 = stakes[a].unlockTime /\ last'.e2 = now
                ELSE /\ last'.err = "none"
                     /\ stakes' = [stakes EXCEPT ![a] = [amount |-> 0, unlockTime |-> 0]]
                     /\ balanceOf' = [balanceOf EXCEPT ![a] = @ + S, ![VAULT] = @ - S]
                     /\ UNCHANGED <<allowance, totalSupply>>]_vars
    /\ [][\A a \in Addr : stakes'[a].amount < stakes[a].amount => stakes'[a].amount = 0]_vars

\* unstake() paid out a whole position of 1000 after the lock expired.
C11_Witness ==
    /\ last.op = "unstake" /\ last.err = "none"
    /\ stakes[last.self] = [amount |-> 0, unlockTime |-> 0]
    /\ balanceOf[last.self] >= 1000
    /\ lockDuration = 1

\* What C12 promises for stake(x) by sender in the current state: the call
\* commits, x tokens move from sender to the vault, the position grows by x
\* and its unlockTime is now + lockDuration.
StakeSettles(sender, x) ==
    LET r == stake(World, sender, x, now, lockDuration)
    IN  /\ r.err = "none"
        /\ r.w.bal = [balanceOf EXCEPT ![sender] = @ - x, ![VAULT] = @ + x]
        /\ r.w.stk = [stakes EXCEPT ![sender] =
                         [amount |-> @.amount + x, unlockTime |-> now + lockDuration]]

\* C12 as stated: stake(x) with x > 0, balance >= x and allowance >= x
\* always settles; stake(0) fails with ZeroAmount and changes nothing.
C12_Original ==
    \A sender \in Stakers :
        /\ \A x \in Amounts \ {0} :
              (balanceOf[sender] >= x /\ allowance[sender][VAULT] >= x) => StakeSettles(sender, x)
        /\ LET z == stake(World, sender, 0, now, lockDuration)
           IN  z.err = "ZeroAmount" /\ z.w = World

\* C12 amended: the same whenever now + lockDuration is representable; when
\* it is not, stake(x) reverts with an arithmetic panic and changes nothing.
\* A committed stake moves exactly its amount, and the whole position,
\* whatever was unlocked before, is ineligible at every time before the new
\* unlock time.
C12_Stake ==
    /\ [](\A sender \in Stakers :
            /\ \A x \in Amounts \ {0} :
                  (balanceOf[sender] >= x /\ allowance[sender][VAULT] >= x) =>
                      IF now + lockDuration <= UintMax
                      THEN StakeSettles(sender, x)
                      ELSE LET r == stake(World, sender, x, now, lockDuration)
                           IN  r.err = "Panic" /\ r.w = World
            /\ LET z == stake(World, sender, 0, now, lockDuration)
               IN  z.err = "ZeroAmount" /\ z.w = World)
    /\ [][Called("stake") =>
            LET a == last'.self
                x == last'.n
            IN  IF last'.err = "none"
                THEN /\ x > 0
                     /\ balanceOf' = [balanceOf EXCEPT ![a] = @ - x, ![VAULT] = @ + x]
                     /\ stakes' = [stakes EXCEPT ![a] =
                                     [amount |-> @.amount + x, unlockTime |-> now + lockDuration]]
                     /\ allowance'[a][VAULT] = allowance[a][VAULT] - x
                     /\ \A t \in now..MaxTime :
                           t < now + lockDuration => ~(stakes'[a].amount > 0 /\ t >= stakes'[a].unlockTime)
                ELSE LedgerUnchanged]_vars

\* A restake of 50 on a position of 1000 whose lock had expired: the whole
\* 1050 is locked again.
C12_Witness ==
    /\ last.op = "stake" /\ last.err = "none" /\ last.n = 50
    /\ stakes[last.self].amount = 1050
    /\ lockDuration = 1
    /\ stakes[last.self].unlockTime = now + 1
    /\ now >= 3

\* A request of the relayer script for RelayUser with ceiling m.
ScriptRequest(m) ==
    [path |-> "script", user |-> RelayUser, auth |-> "ok", maxFee |-> m, maxFeeBps |-> 0]

ReasonOf(m, clock) ==
    LET amount == stakes[RelayUser].amount
        unlockTime == stakes[RelayUser].unlockTime
    IN  IF amount = 0 THEN "User has no stake in this vault"
        ELSE IF now < unlockTime /\ clock < unlockTime THEN "Stake still locked"
        ELSE IF amount * 100 > UintMax THEN "Validation error"
        ELSE IF now < unlockTime THEN "Cannot rescue at this time"
        ELSE "Fee exceeds max"

C14_MalformedRejected ==
    request.auth # "ok" =>
        /\ sent = <<>>
        /\ pc \in {"validating", "done"}
        /\ outcome.state # "Succeeded"

\* C15: the first submission of a request follows a validation (a ledger
\* read) and finds the account eligible and the ceiling sent with the
\* transaction >= the estimated fee; a request that validation rejects ends
\* Failed with a reason and nothing is ever submitted for it.
C15_ValidatedBeforeDispatch ==
    [][/\ (sent = <<>> /\ sent' # <<>>) =>
             /\ reads > 0
             /\ ~NotEligible(request.user)
             /\ request.maxFee >= RelayerFee(stakes[request.user].amount)
       /\ (pc = "validating" /\ pc' = "done") =>
             outcome'.state = "Failed" /\ outcome'.reason # "" /\ sent' = <<>>
       /\ pc = "done" => sent' = sent]_vars

\* The attempts made before and after the switch to the public endpoint.
Primary == {i \in DOMAIN sent : sent[i].depth = 0}
Fallback == {i \in DOMAIN sent : sent[i].depth > 0}

\* C16: one sendProtectedTransaction makes at most maxRetries attempts
\* before the switch; attempts after the switch exist only if the protection
\* was enabled, fallbackToPublic is set and all maxRetries attempts before it
\* failed; there is one switch, to the public endpoint, followed by at most
\* maxRetries attempts; at most 2 * maxRetries attempts in all, and none
\* after an attempt that returned a hash.
C16_BoundedAttempts ==
    /\ [](/\ Cardinality(Primary) <= config.maxRetries
          /\ Cardinality(Fallback) <= config.maxRetries
          /\ Len(sent) <= 2 * config.maxRetries
          /\ Fallback # {} =>
                /\ config.fallbackToPublic
                /\ Cardinality(Primary) = config.maxRetries
                /\ \A i \in Primary : ~sent[i].accepted /\ sent[i].channel = "protected"
          /\ \A i \in Fallback : sent[i].depth = 1 /\ sent[i].channel = "public"
          /\ \A i \in Primary, j \in Fallback : i < j
          /\ \A i \in DOMAIN sent : sent[i].accepted => i = Len(sent))
    /\ [][Len(sent') # Len(sent) =>
            /\ pc = "sending"
            /\ \A i \in DOMAIN sent : ~sent[i].accepted
            /\ Len(sent') = Len(sent) + 1]_vars

\* maxRetries = 2 with fallback: two failures on the protected endpoint,
\* one on the public one, and the fourth attempt returned a hash.
C16_Witness ==
    /\ config.maxRetries = 2 /\ Len(sent) = 4
    /\ sent[2].channel = "protected" /\ sent[3].channel = "public"
    /\ sent[4].accepted /\ pc = "awaiting"

\* The attempts whose transaction emitted RescueExecuted.
Recorded == {i \in DOMAIN sent : sent[i].record}

\* C17: the attempts of one request emit at most one RescueExecuted; and a
\* request whose earlier attempts were reported failed, whose retry was
\* confirmed and whose stake was released by one of its attempts has the
\* outcome Succeeded with exactly one record.
C17_ExactlyOnce ==
    /\ Cardinality(Recorded) <= 1
    /\ (/\ pc = "done" /\ Len(sent) >= 2
        /\ outcome.hash = Len(sent)
        /\ Recorded # {}) =>
           outcome.state = "Succeeded" /\ Cardinality(Recorded) = 1

\* C18: between a failed attempt and the next attempt for the same request
\* the handler reads the ledger.
C18_RecheckBeforeRetry ==
    \A i \in DOMAIN sent : i > 1 => sent[i].reads > sent[i - 1].reads

\* C19: success is reported (outcome Succeeded, or the registration marked
\* rescued) only for a transaction confirmed with status success, and a
\* transaction confirmed as reverted is reported as Failed.
C19_SuccessMeansConfirmed ==
    /\ outcome.state = "Succeeded" =>
          outcome.hash \in DOMAIN sent /\ sent[outcome.hash].status = "success"
    /\ \A u \in Stakers :
          (users[u].present /\ users[u].rescued) =>
              /\ users[u].rescueTxHash \in DOMAIN sent
              /\ sent[users[u].rescueTxHash].status = "success"
    /\ (pc = "done" /\ outcome.hash \in DOMAIN sent /\ sent[outcome.hash].status = "reverted") =>
          outcome.state = "Failed"

\* C20: an entry with rescued = true keeps rescued and rescueTxHash in
\* every later step and is not pending; it leaves the registry only by
\* unregister.
C20_Terminal ==
    /\ [](\A u \in Stakers : (users[u].present /\ users[u].rescued) => u \notin Range(getPending(users)))
    /\ [][\A u \in Stakers :
            (users[u].present /\ users[u].rescued) =>
                IF users'[u].present
                THEN users'[u].rescued /\ users'[u].rescueTxHash = users[u].rescueTxHash
                ELSE users' = unregister(users, u)]_vars

\* The entry of account u is registered and not rescued.
Pending(u) == users[u].present /\ ~users[u].rescued
\* An invocation of the monitor is inside executeRescue for account u.
Attempting(u) ==
    \E i \in 1..MaxCycles :
        cycles[i].pc \in {"rescue", "send", "wait"} /\ Head(cycles[i].todo) = u

\* Account u is pending and eligible and no invocation attempts its rescue.
Waiting(u) == Pending(u) /\ getStakeInfo(World, u, now).canRescue /\ ~Attempting(u)

\* C21: a pending registration whose account is eligible is eventually
\* driven to a rescue attempt, however many pending registrations precede
\* it in the store: no entry stays pending and eligible for ever without
\* an attempt.
C21_EventuallyAttempted ==
    \A u \in Stakers : Waiting(u) ~> ~Waiting(u)

\* C22: the monitor sets rescued (with the hash of the transaction) on a
\* registration exactly when the receipt of a transaction it submitted for
\* that account reports success; a step of executeRescue that ends the
\* attempt otherwise (not eligible, submission error, reverted, receipt
\* timeout) leaves the registry as it was, and the entry, still pending, is
\* within the entries the next cycle scans.
C22_MarkedIffConfirmed ==
    /\ [](\A u \in Stakers :
            (users[u].present /\ users[u].rescued) =>
                /\ users[u].rescueTxHash \in DOMAIN sent
                /\ sent[users[u].rescueTxHash].user = u
                /\ sent[users[u].rescueTxHash].status = "success")
    /\ [][\A i \in 1..MaxCycles :
            (cycles[i].pc \in {"rescue", "send", "wait"} /\ cycles'[i] # cycles[i]) =>
                LET u == Head(cycles[i].todo)
                IN  IF cycles[i].pc = "wait" /\ sent[cycles[i].hash].status = "success"
                    THEN /\ users'[u].rescued /\ users'[u].rescueTxHash = cycles[i].hash
                         /\ sent[cycles[i].hash].user = u
                    ELSE /\ users' = users
                         /\ (cycles'[i].pc \notin {"send", "wait"} /\ Pending(u)) =>
                               u \in Range(slice(getPending(users'), maxConcurrentRescues))]_vars
    /\ [][\A u \in Stakers :
            users'[u].rescued # users[u].rescued =>
                \E i \in 1..MaxCycles :
                    /\ cycles[i].pc = "wait" /\ Head(cycles[i].todo) = u
                    /\ sent[cycles[i].hash].status = "success"
                    /\ cycles'[i] # cycles[i]]_vars

\* alice was checked and found without a stake and is still pending; bob's
\* transaction succeeded and he is marked rescued with its hash.
C22_Witness ==
    /\ Pending("alice") /\ users["alice"].lastChecked > 0
    /\ Len(sent) = 1 /\ sent[1].user = "bob" /\ sent[1].status = "success"
    /\ users["bob"].rescued /\ users["bob"].rescueTxHash = 1
    /\ \A i \in 1..MaxCycles : cycles[i] = NoCycle

\* The invocations that have a submission started and not completed.
InFlight == {i \in 1..MaxCycles : cycles[i].pc \in {"send", "wait"}}

\* C23: at every moment at most maxConcurrentRescues rescue submissions of
\* the monitor are started and not yet completed, overlapping cycles included.
C23_BoundedInFlight == Cardinality(InFlight) <= maxConcurrentRescues

\* C24: when the wait for the receipt of a submitted transaction times out,
\* the attempt counts as unconfirmed and the handler goes on with its
\* retry/fallback logic for the request; it does not end the request Failed.
C24_TimeoutRetries ==
    [][(pc = "awaiting" /\ pc' # "awaiting" /\ sent[Len(sent)].status = "pending") =>
          pc' = "sending" /\ outcome'.state # "Failed"]_vars

\* C25: within one request a further submission is made only from the
\* submission loop, after an attempt for which the channel returned no hash;
\* once a receipt was obtained or the wait for it ended, and once validation
\* rejected the request, the request is over and nothing more is submitted.
C25_OnlyChannelErrorsRetried ==
    /\ [][Len(sent') > Len(sent) =>
            /\ pc = "sending" /\ outcome.state = "none"
            /\ sent # <<>> => (~sent[Len(sent)].accepted /\ request.path # "api")]_vars
    /\ [][(pc = "awaiting" /\ pc' # pc) => pc' = "done"]_vars
    /\ [][(pc = "validating" /\ pc' = "done") => sent' = <<>>]_vars
    /\ [][pc = "done" => (pc' = "done" /\ Len(sent') = Len(sent) /\ outcome' = outcome)]_vars

\* The first attempt failed in the channel, the second returned a hash and
\* its transaction was confirmed reverted: the request ended Failed with
\* two attempts made.
C25_Witness ==
    /\ pc = "done" /\ outcome = Failed("Transaction reverted", 2)
    /\ Len(sent) = 2
    /\ ~sent[1].accepted /\ sent[1].status = "none"
    /\ sent[2].accepted /\ sent[2].status = "reverted"

\* C26: executeRescue with vault or relayer the zero address fails with
\* ZeroAddress, whatever contract or account the other argument is and
\* whatever the account's stake is (none, locked, eligible, released): no
\* vault is queried (a vault argument without code gives ZeroAddress, not a
\* failed call), the ledger is unchanged and no record is emitted.
C26_ZeroAddress ==
    /\ [](\A self \in Stakers, vault \in AnyVaultArgs, relayer \in RelayerArgs, maxFee \in MaxFees :
            (vault = ZERO \/ relayer = ZERO) =>
                LET r == executeRescue(World, self, vault, relayer, maxFee, now)
                IN  r.err = "ZeroAddress" /\ r.w = World /\ ~r.ev.emitted)
    /\ [][(Called("executeRescue") /\ last'.err = "ZeroAddress") =>
            LedgerUnchanged /\ ~last'.ev.emitted /\ UNCHANGED released]_vars

\* executeRescue failed with ZeroAddress for an account whose stake of 1000
\* was eligible, and the stake is still in place.
C26_Witness ==
    /\ last.op = "executeRescue" /\ last.err = "ZeroAddress"
    /\ ~NotEligible(last.self) /\ stakes[last.self].amount = 1000
    /\ balanceOf[VAULT] = 1000

\* C28: against a vault that reports the account eligible with a non-zero
\* stake and whose unstake() delivers nothing, executeRescue fails with
\* InsufficientUnstakedAmount for every non-zero relayer and every maxFee:
\* the ledger is unchanged (no fee paid, also when the account holds tokens
\* of its own) and no RescueExecuted record is emitted.
C28_NothingReleased ==
    /\ [](\A self \in Stakers, relayer \in RelayerArgs \ {ZERO}, maxFee \in MaxFees :
            LET r == executeRescue(World, self, IDLE, relayer, maxFee, now)
            IN  /\ vaultCanUnstake(World, IDLE, self, now) /\ vaultStakedBalance(World, IDLE, self) > 0
                /\ r.err = "InsufficientUnstakedAmount" /\ r.w = World /\ ~r.ev.emitted)
    /\ [][(Called("executeRescue") /\ last'.err = "InsufficientUnstakedAmount") =>
            LedgerUnchanged /\ ~last'.ev.emitted /\ UNCHANGED released]_vars

\* executeRescue failed with InsufficientUnstakedAmount for an account that
\* holds tokens of its own and a position in the real vault.
C28_Witness ==
    /\ last.op = "executeRescue" /\ last.err = "InsufficientUnstakedAmount"
    /\ balanceOf[last.self] > 0 /\ stakes[last.self].amount = 1000
    /\ ~last.ev.emitted

\* The sum of f over the accounts in S.
RECURSIVE SumOver(_, _)
SumOver(f, S) ==
    IF S = {} THEN 0
    ELSE LET a == CHOOSE x \in S : TRUE
         IN  f[a] + SumOver(f, S \ {a})

\* The sum of the amounts of all positions, and what the vault holds beyond it.
TotalStaked == SumOver([a \in Addr |-> stakes[a].amount], Addr)
Surplus == balanceOf[VAULT] - TotalStaked

\* C29: the vault's token balance is at least the sum of the amounts of all
\* positions, so unstake of an eligible position never fails; the surplus
\* never shrinks and grows only by a token transfer to the vault or by a
\* rescue fee paid to the vault as relayer (it is 0 when neither happened).
C29_VaultSolvent ==
    /\ [](Surplus >= 0)
    /\ [](\A a \in Stakers : ~NotEligible(a) => unstake(World, a, now).err = "none")
    /\ [][/\ Surplus' >= Surplus
          /\ Surplus' > Surplus =>
                \/ last'.op = "transfer" /\ last'.err = "none"
                \/ last'.op = "executeRescue" /\ last'.err = "none" /\ last'.ev.relayer = VAULT]_vars

\* alice's position of 1000 was released from a vault that held 2000 (1000
\* staked, 1000 transferred to it): 1000 stay behind, no position left.
C29_Witness ==
    /\ last.op \in {"unstake", "executeRescue"} /\ last.err = "none"
    /\ TotalStaked = 0 /\ balanceOf[VAULT] >= 1000

\* C30: the balances add up to totalSupply, which never changes; transfer
\* and transferFrom fail for a zero recipient, an insufficient balance and
\* an insufficient allowance, a failed one changes nothing and a committed
\* one keeps the sum.
C30_Supply ==
    /\ [](SumOver(balanceOf, Addr) = totalSupply /\ totalSupply = InitialSupply)
    /\ [](\A sender \in EOA \cup {VAULT}, to \in TransferTargets, amount \in {50, 1000} :
            LET r == transfer(World, sender, to, amount)
            IN  /\ SumOver(r.w.bal, Addr) = totalSupply
                /\ r.err # "none" => r.w = World
                /\ r.err # "none" <=> (to = ZERO \/ balanceOf[sender] < amount))
    /\ [](\A sender \in {VAULT, "bob"}, from \in Stakers, to \in {VAULT, ZERO, "relayer"},
              amount \in {50, 1500} :
            LET r == transferFrom(World, sender, from, to, amount)
            IN  /\ SumOver(r.w.bal, Addr) = totalSupply
                /\ r.err # "none" => r.w = World
                /\ r.err # "none" <=> (\/ to = ZERO \/ balanceOf[from] < amount
                                       \/ allowance[from][sender] < amount))
    /\ [][totalSupply' = totalSupply]_vars
    /\ [][(txCount' = txCount + 1 /\ last'.err # "none") => LedgerUnchanged]_vars

\* After a stake, a rescue and a transfer the supply is spread over alice,
\* bob and the relayer.
C30_Witness ==
    /\ last.op = "transfer" /\ last.err = "none"
    /\ balanceOf["relayer"] = 10 /\ balanceOf["bob"] = 1000
    /\ balanceOf["alice"] = InitialSupply - 1010

\* The attempts the configuration the call started with allows: maxRetries
\* on its endpoint, and as many on the public one after the switch.
Allowed ==
    IF Fallback # {} \/ (config.enabled /\ config.fallbackToPublic)
    THEN 2 * config.maxRetries ELSE config.maxRetries

\* C27 as stated: for every maxRetries >= 0 sendProtectedTransaction ends,
\* with the hash of the first accepted attempt or, every allowed attempt
\* having failed, with the error of the last attempt made.
C27_Original ==
    pc = "done" => outcome.error \in DOMAIN sent /\ outcome.error = Len(sent)

\* C27 amended: sendProtectedTransaction ends; it returns the hash of the
\* first accepted attempt, which is the last attempt made; otherwise every
\* allowed attempt was made and failed and it throws the error of the last
\* one, or, with maxRetries = 0, no attempt was made on either endpoint and
\* it throws the generic error.
C27_Terminates ==
    /\ <>(pc \in {"awaiting", "done"})
    /\ [](pc = "awaiting" =>
            /\ sent # <<>> /\ sent[Len(sent)].accepted
            /\ \A i \in 1..(Len(sent) - 1) : ~sent[i].accepted
            /\ outcome = NoOutcome)
    /\ [](pc = "done" =>
            /\ outcome.state = "Failed"
            /\ \A i \in DOMAIN sent : ~sent[i].accepted
            /\ Len(sent) = Allowed
            /\ IF config.maxRetries = 0
               THEN sent = <<>> /\ outcome = Thrown(0)
               ELSE outcome.error = Len(sent) /\ outcome = Thrown(Len(sent)))

\* maxRetries = 2 with fallback: all four attempts failed and the error of
\* the fourth was thrown.
C27_Witness ==
    /\ pc = "done" /\ config.maxRetries = 2 /\ config.fallbackToPublic
    /\ Len(sent) = 4 /\ outcome.error = 4
    /\ sent[2].channel = "protected" /\ sent[4].channel = "public"

\* What estimateRescue promises executeRescue will do for account self, with
\* vault, relayer and ceiling maxFee, in the current state.
EstimateHonoured(self, vault, relayer, maxFee) ==
    LET e == estimateRescue(World, vault, self, now)
        r == executeRescue(World, self, vault, relayer, maxFee, now)
    IN  (e.err = "none" /\ e.ret.canRescue /\ maxFee >= e.ret.estimatedFee) =>
            /\ r.err = "none" /\ r.ev.emitted
            /\ r.ev.totalUnstaked = e.ret.stakedAmount
            /\ r.ev.relayerFee = e.ret.estimatedFee
            /\ r.ev.userReceived = e.ret.userWouldReceive

\* C31 as stated: when estimateRescue returns (a, f, n, true) for an
\* account, executeRescue for that account in the same state with any
\* maxFee >= f succeeds, whatever the relayer it names, and records
\* (a, f, n).
C31_Original ==
    \A self \in Stakers, vault \in VaultArgs, relayer \in RelayerArgs,
       maxFee \in MaxFees \cup {0, UintMax} :
        EstimateHonoured(self, vault, relayer, maxFee)

\* C31 amended: the same for StakingVault and a non-zero relayer (the
\* account itself and the vault included); an executeRescue that follows an
\* estimate of (a, f, n, true) for the same account either records
\* (a, f, n), or names the zero address or a vault that is no contract, or
\* fails with FeeTooHigh(f, maxFee) for a maxFee < f.
C31_EstimateHonoured ==
    /\ [](\A self \in Stakers, relayer \in RelayerArgs \ {ZERO},
              maxFee \in MaxFees \cup {0, UintMax} :
            EstimateHonoured(self, VAULT, relayer, maxFee))
    /\ [][(/\ Called("executeRescue")
           /\ last.op = "estimateRescue" /\ last.err = "none" /\ last.ret.canRescue
           /\ last'.self = last.self) =>
             IF last'.err = "none"
             THEN /\ last'.ev.totalUnstaked = last.ret.stakedAmount
                  /\ last'.ev.relayerFee = last.ret.estimatedFee
                  /\ last'.ev.userReceived = last.ret.userWouldReceive
                  /\ last'.n >= last.ret.estimatedFee
             ELSE \/ last'.err \in InvalidTargetErrs
                  \/ /\ last'.err = "FeeTooHigh"
                     /\ last'.e1 = last.ret.estimatedFee
                     /\ last'.e2 < last.ret.estimatedFee]_vars

\* A position of 1050 built by two stakes, estimated at (1050, 10, 1040,
\* true), was rescued under the ceiling 10 and recorded those values.
C31_Witness ==
    /\ last.op = "executeRescue" /\ last.err = "none" /\ last.n = 10
    /\ last.ev.totalUnstaked = 1050 /\ last.ev.relayerFee = 10
    /\ last.ev.userReceived = 1040
    /\ estimateRescue(World, VAULT, last.self, now).ret = NoRet

\* C32: in every reachable state and for every account, canUnstake(account)
\* is true exactly when unstake() called by that account in that state
\* succeeds; every unstake() that ran succeeded exactly when the view held
\* in the state it ran in.
C32_ViewAgreesWithRelease ==
    /\ [](\A a \in Addr \ {ZERO} :
            canUnstake(stakes, a, now) <=> (unstake(World, a, now).err = "none"))
    /\ [][Called("unstake") =>
            (canUnstake(stakes, last'.self, now) <=> (last'.err = "none"))]_vars

\* bob, who got his tokens by a transfer, staked them and released them with
\* unstake(); the view is false again for the emptied position.
C32_Witness ==
    /\ last.op = "unstake" /\ last.err = "none" /\ last.self = "bob"
    /\ stakes["bob"].amount = 0 /\ balanceOf["bob"] = 1000
    /\ ~canUnstake(stakes, "bob", now)

\* C33: the monitor never has two rescue attempts for the same account in
\* flight at the same time, overlapping invocations of checkAndRescue
\* included: no two invocations are past the eligibility check of
\* executeRescue (submitting, or awaiting the receipt) for the same account.
C33_OneAttemptPerAccount ==
    \A i \in 1..MaxCycles, j \in 1..MaxCycles :
        (/\ i # j
         /\ cycles[i].pc \in {"send", "wait"}
         /\ cycles[j].pc \in {"send", "wait"}) =>
            Head(cycles[i].todo) # Head(cycles[j].todo)

\* C34: when the stake of a registered account was released by a rescue
\* transaction the monitor submitted, the registration is eventually marked
\* rescued, also when the channel had reported that submission as failed.
C34_ReleasedIsMarked ==
    \A u \in Stakers :
        (released[u] /\ users[u].present) ~> users[u].rescued

\* The ledger executeRescue(vault, relayer, maxFee) run as account self
\* leaves, committed or reverted, differs from the current one at most in
\* the position of self and the balances of self, the vault and relayer.
RescueFrame(self, vault, relayer, maxFee) ==
    LET r == executeRescue(World, self, vault, relayer, maxFee, now)
    IN  /\ r.w.alw = allowance
        /\ \A b \in Addr \ {self} : r.w.stk[b] = stakes[b]
        /\ \A x \in Addr \ {self, VAULT, relayer} : r.w.bal[x] = balanceOf[x]

\* C35: a successful or failed executeRescue for account A changes nothing
\* except A's position and the token balances of A, the vault and the named
\* relayer: every other position and balance, all allowances and
\* totalSupply are unchanged.
C35_RescueFrame ==
    /\ [](\A self \in Stakers, vault \in AnyVaultArgs, relayer \in RelayerArgs,
              maxFee \in MaxFees :
            RescueFrame(self, vault, relayer, maxFee))
    /\ [][Called("executeRescue") =>
            /\ allowance' = allowance /\ totalSupply' = totalSupply
            /\ \A b \in Addr \ {last'.self} : stakes'[b] = stakes[b]
            /\ \A x \in Addr \ {last'.self, VAULT, last'.ev.relayer} :
                  balanceOf'[x] = balanceOf[x]]_vars

\* alice's stake was released by a mined rescue that paid the relayer; bob's
\* position of 1000, his balance and his allowance to the vault are as they
\* were.
C35_Witness ==
    /\ last.op = "executeRescue" /\ last.err = "none" /\ last.self = "alice"
    /\ last.ev.relayer = "relayer" /\ balanceOf["relayer"] = last.ev.relayerFee
    /\ stakes["alice"].amount = 0
    /\ stakes["bob"].amount = 1000 /\ balanceOf["bob"] = 0
    /\ allowance = LedgerAfterStakes(1000, 1000).alw

\* The step mines an executeRescue for the request's account while its
\* stake is what it was when the ceiling was derived from it.
MinedOnSameStake ==
    /\ Called("executeRescue")
    /\ stakes[request.user].amount > 0

HasFallenBack == frame.depth > 0 \/ \E i \in DOMAIN sent : sent[i].depth > 0

\* C37: a fallback is permanent for a MevProtectedRelayer instance: once a
\* call has fallen back the protection stays disabled, every later call
\* makes its attempts on the public channel only, never falls back again
\* and reports wasProtected = false; wasProtected is true only for an attempt
\* accepted while the protection was enabled with a non-public provider.
C37_FallbackPermanent ==
    /\ [](HasFallenBack => ~config.enabled)
    /\ [][~config.enabled => ~config'.enabled]_vars
    /\ [](\A i \in DOMAIN sent, j \in DOMAIN sent :
            (sent[i].depth > 0 /\ sent[j].call > sent[i].call) =>
                /\ sent[j].channel = "public" /\ sent[j].provider = "public"
                /\ sent[j].depth = 0
                /\ ~sent[j].wasProtected)
    /\ [](\A i \in DOMAIN sent : sent[i].depth > 0 => ~sent[i].wasProtected)
    /\ [][Len(sent') > Len(sent) =>
            LET a == sent'[Len(sent')]
            IN  /\ a.wasProtected <=>
                     (a.accepted /\ config.enabled /\ config.provider # "public")
                /\ a.wasProtected => a.channel = "protected"
                /\ HasFallenBack => (a.channel = "public" /\ ~a.wasProtected)]_vars

\* The first call on an instance configured for flashbots failed on the
\* protected channel and fell back; the second call was accepted at its
\* first attempt, on the public channel, and reported wasProtected = false.
C37_Witness ==
    /\ config.provider = "flashbots" /\ config.fallbackToPublic /\ ~config.enabled
    /\ Len(sent) = 3 /\ pc = "awaiting" /\ frame.call = 2
    /\ sent[1].call = 1 /\ sent[1].channel = "protected" /\ ~sent[1].accepted
    /\ sent[2].call = 1 /\ sent[2].depth = 1 /\ sent[2].channel = "public"
    /\ sent[3].call = 2 /\ sent[3].depth = 0 /\ sent[3].accepted
    /\ sent[3].channel = "public" /\ sent[3].provider = "public" /\ ~sent[3].wasProtected

====
